---- MODULE Spec2Model ----
(***************************************************************************)
(* RIASEC classifier (scripts/riasec_classifier.py), its batch pipeline    *)
(* (scripts/process_jobs.py) and the tool wrapper (tools/riasec_tools.py). *)
(*                                                                         *)
(* Representation.  Python str values are TLA+ strings; TLC evaluates Len, *)
(* \o and SubSeq on them, so substring tests, splitting and case mapping   *)
(* are computed character by character as the code computes them.  Scores  *)
(* are Python floats that are sums of 3.0, 2.0, 1.5 and 1.0: they are kept *)
(* exactly, in tenths (3.0 is 30).  A rounded confidence is kept in        *)
(* thousandths (0.657 is 657).  A dict is kept with its key order where    *)
(* the code iterates it: as a sequence of keys or of records.              *)
(***************************************************************************)
EXTENDS Integers, Sequences, FiniteSets, TLC

(***************************************************************************)
(* Python str primitives                                                   *)
(***************************************************************************)
UPPER == "ABCDEFGHIJKLMNOPQRSTUVWXYZ"
LOWER == "abcdefghijklmnopqrstuvwxyz"
DIGITS == "0123456789"

Char(s, i) == SubSeq(s, i, i)

\* The member of a one-element set.  Only({ F(x) : x \in {e} }) is F(e) with e
\* evaluated once and bound to x, as a local variable of the code holds a value.
Only(S) == CHOOSE x \in S : TRUE

CharsOf(s) == { Char(s, i) : i \in 1..Len(s) }

LowerMap == [ c \in CharsOf(UPPER) |->
                Char(LOWER, CHOOSE i \in 1..Len(UPPER) : Char(UPPER, i) = c) ]

UpperMap == [ c \in CharsOf(LOWER) |->
                Char(UPPER, CHOOSE i \in 1..Len(LOWER) : Char(LOWER, i) = c) ]

IsAlpha(c) == c \in DOMAIN LowerMap \/ c \in DOMAIN UpperMap

lower_char(c) == IF c \in DOMAIN LowerMap THEN LowerMap[c] ELSE c

upper_char(c) == IF c \in DOMAIN UpperMap THEN UpperMap[c] ELSE c

RECURSIVE JoinRange(_, _, _)
\* ''.join(parts[lo..hi]), halving the range
JoinRange(parts, lo, hi) ==
  IF lo > hi THEN ""
  ELSE IF lo = hi THEN parts[lo]
  ELSE LET mid == (lo + hi) \div 2
       IN  JoinRange(parts, lo, mid) \o JoinRange(parts, mid + 1, hi)

\* ''.join(parts)
Join(parts) == JoinRange(parts, 1, Len(parts))

\* str.lower(), character by character
lower_chars(s) == Join([ i \in 1..Len(s) |-> lower_char(Char(s, i)) ])

\* `sub in s`
Contains(s, sub) ==
  \E i \in 1..(Len(s) - Len(sub) + 1) : SubSeq(s, i, i + Len(sub) - 1) = sub

\* index of the first / last occurrence of sub in s (0 when there is none)
FirstIndex(s, sub) ==
  IF Contains(s, sub)
  THEN CHOOSE i \in 1..(Len(s) - Len(sub) + 1) :
         /\ SubSeq(s, i, i + Len(sub) - 1) = sub
         /\ \A j \in 1..(i - 1) : SubSeq(s, j, j + Len(sub) - 1) # sub
  ELSE 0

LastIndex(s, sub) ==
  IF Contains(s, sub)
  THEN CHOOSE i \in 1..(Len(s) - Len(sub) + 1) :
         /\ SubSeq(s, i, i + Len(sub) - 1) = sub
         /\ \A j \in (i + 1)..(Len(s) - Len(sub) + 1) : SubSeq(s, j, j + Len(sub) - 1) # sub
  ELSE 0

\* s.split(sep)[-1] and s.split(sep)[0]
SplitLast(s, sep) ==
  IF Contains(s, sep) THEN SubSeq(s, LastIndex(s, sep) + Len(sep), Len(s)) ELSE s

SplitFirst(s, sep) ==
  IF Contains(s, sep) THEN SubSeq(s, 1, FirstIndex(s, sep) - 1) ELSE s

\* s.replace(c, r) for a one-character c
str_replace_char(s, c, r) ==
  Join([ i \in 1..Len(s) |-> IF Char(s, i) = c THEN r ELSE Char(s, i) ])

\* the characters of r'\s' that the texts of the model use
WHITESPACE == {" ", "\t", "\n", "\r", "\f"}

\* str.strip()
strip(s) ==
  LET solid == { i \in 1..Len(s) : Char(s, i) \notin WHITESPACE }
  IN  IF solid = {} THEN ""
      ELSE SubSeq(s, CHOOSE i \in solid : \A j \in solid : i <= j,
                     CHOOSE i \in solid : \A j \in solid : i >= j)

\* str.title(): a letter is upper-cased when the character before it is not a
\* letter, and lower-cased otherwise
str_title(s) ==
  Join([ i \in 1..Len(s) |->
           IF i > 1 /\ IsAlpha(Char(s, i - 1))
           THEN lower_char(Char(s, i))
           ELSE upper_char(Char(s, i)) ])

(***************************************************************************)
(* Configuration: riasec_classifier.py lines 39-43, in tenths              *)
(***************************************************************************)
STRONG_INDICATOR_WEIGHT == 30
MODERATE_INDICATOR_WEIGHT == 15
KEYWORD_WEIGHT == 10
TITLE_BONUS_WEIGHT == 20

\* f"{weight}" of the float weights above
WeightText(w) ==
  CASE w = STRONG_INDICATOR_WEIGHT -> "3.0"
    [] w = MODERATE_INDICATOR_WEIGHT -> "1.5"
    [] w = KEYWORD_WEIGHT -> "1.0"

(***************************************************************************)
(* The built-in framework: get_embedded_framework                          *)
(***************************************************************************)
Embedded_R ==
  [ letter |-> "R", name |-> "Realistic", title |-> "The Doers",
    strong |-> <<
      "maintenance", "repair", "construction", "welding", "plumbing", "electrical", "HVAC",
      "carpentry", "machinery", "forklift", "CDL", "truck driving", "warehouse",
      "manufacturing", "assembly", "installation", "mechanical", "automotive", "diesel",
      "landscaping", "farming", "firefighting", "EMT", "CPR", "BLS"
    >>,
    moderate |-> <<
      "hands-on", "technical", "field work", "troubleshooting", "inspection",
      "quality control", "building", "fixing"
    >>,
    keywords |-> << >> ]

Embedded_I ==
  [ letter |-> "I", name |-> "Investigative", title |-> "The Thinkers",
    strong |-> <<
      "research", "analysis", "data analysis", "statistics", "analytics", "programming",
      "software development", "Python", "Java", "JavaScript", "SQL", "machine learning",
      "AI", "data science", "algorithms", "debugging", "laboratory", "clinical research",
      "diagnosis", "engineering", "mathematics", "physics", "chemistry", "biology"
    >>,
    moderate |-> <<
      "problem-solving", "critical thinking", "investigation", "evaluation", "assessment",
      "documentation", "technical writing", "analytical"
    >>,
    keywords |-> << >> ]

Embedded_A ==
  [ letter |-> "A", name |-> "Artistic", title |-> "The Creators",
    strong |-> <<
      "graphic design", "UI design", "UX design", "visual design", "web design",
      "illustration", "photography", "videography", "video editing", "animation",
      "creative writing", "copywriting", "content creation", "music", "acting", "dance",
      "fashion design", "interior design", "Adobe", "Photoshop", "Illustrator", "Figma",
      "art direction"
    >>,
    moderate |-> <<
      "creative", "innovative", "artistic", "aesthetic", "visual", "media", "content",
      "brand", "design"
    >>,
    keywords |-> << >> ]

Embedded_S ==
  [ letter |-> "S", name |-> "Social", title |-> "The Helpers",
    strong |-> <<
      "teaching", "education", "training", "nursing", "patient care", "caregiving",
      "home health", "counseling", "therapy", "psychology", "social work",
      "case management", "customer service", "customer support", "coaching", "mentoring",
      "healthcare", "medical", "clinical", "pediatric", "geriatric", "special education"
    >>,
    moderate |-> <<
      "communication", "interpersonal", "empathy", "listening", "teamwork",
      "collaboration", "support", "helping", "service"
    >>,
    keywords |-> << >> ]

Embedded_E ==
  [ letter |-> "E", name |-> "Enterprising", title |-> "The Persuaders",
    strong |-> <<
      "sales", "business development", "account management", "management", "leadership",
      "executive", "director", "supervisor", "marketing", "advertising",
      "public relations", "entrepreneurship", "negotiation", "persuasion", "recruiting",
      "real estate", "project management", "operations management"
    >>,
    moderate |-> <<
      "strategic", "competitive", "goal-oriented", "results-driven", "influencing",
      "presenting", "pitching", "networking", "business"
    >>,
    keywords |-> << >> ]

Embedded_C ==
  [ letter |-> "C", name |-> "Conventional", title |-> "The Organizers",
    strong |-> <<
      "accounting", "bookkeeping", "auditing", "tax preparation", "payroll",
      "administrative", "clerical", "data entry", "filing", "records management",
      "scheduling", "compliance", "regulatory", "inventory management", "logistics",
      "supply chain", "billing", "invoicing", "Microsoft Office", "Excel", "QuickBooks",
      "SAP"
    >>,
    moderate |-> <<
      "organized", "detail-oriented", "systematic", "accurate", "precise", "process",
      "procedure", "documentation", "reporting"
    >>,
    keywords |-> << >> ]

\* dict key order of "riasec_types" in the embedded framework
get_embedded_framework ==
  [ riasec_types |-> << Embedded_R, Embedded_I, Embedded_A, Embedded_S, Embedded_E, Embedded_C >>,
    combinations |-> << >> ]

(***************************************************************************)
(* A framework file (data/riasec_framework.json) that load_framework may   *)
(* find: its contents are an input of the program.  This one has another   *)
(* key order than "RIASEC", keywords, and phrases listed in both the       *)
(* strong and the moderate list of one category.                           *)
(***************************************************************************)
File_C ==
  [ letter |-> "C", name |-> "Conventional", title |-> "The Organizers",
    strong |-> << "Excel", "data entry" >>,
    moderate |-> << "data entry", "reporting" >>,
    keywords |-> << "office", "excel" >> ]

File_I ==
  [ letter |-> "I", name |-> "Investigative", title |-> "The Thinkers",
    strong |-> << "Python", "SQL", "analysis", "data analysis", "machine learning" >>,
    moderate |-> << "analysis", "research", "problem-solving" >>,
    keywords |-> << "data", "science" >> ]

File_R ==
  [ letter |-> "R", name |-> "Realistic", title |-> "The Doers",
    strong |-> << "repair", "welding" >>,
    moderate |-> << "hands-on", "technical" >>,
    keywords |-> << "tools" >> ]

File_A ==
  [ letter |-> "A", name |-> "Artistic", title |-> "The Creators",
    strong |-> << "graphic design", "Figma" >>,
    moderate |-> << "creative", "design" >>,
    keywords |-> << "art" >> ]

File_S ==
  [ letter |-> "S", name |-> "Social", title |-> "The Helpers",
    strong |-> << "teaching", "nursing" >>,
    moderate |-> << "teamwork", "support" >>,
    keywords |-> << "people" >> ]

File_E ==
  [ letter |-> "E", name |-> "Enterprising", title |-> "The Persuaders",
    strong |-> << "sales", "management" >>,
    moderate |-> << "business" >>,
    keywords |-> << "manager" >> ]

FrameworkFile ==
  [ riasec_types |-> << File_C, File_E, File_S, File_A, File_I, File_R >>,
    combinations |-> [ c \in {"IRA"} |->
                         [ description |-> "Analytical builder", gift |-> "Insight" ] ] ]

\* a file at FRAMEWORK_PATH that is not JSON
Malformed == [ malformed |-> TRUE ]

\* json.load raised while the module was imported: no FRAMEWORK, no classify_job
ImportFailed == [ raised |-> "JSONDecodeError" ]

\* load_framework: json.load of the file when the file exists, which raises on
\* a file that is not JSON, else the built-in table
load_framework(file_exists, file_content) ==
  IF file_exists
  THEN IF file_content = Malformed THEN ImportFailed ELSE file_content
  ELSE get_embedded_framework

\* The frameworks load_framework can return in this model
Frameworks == { get_embedded_framework, FrameworkFile }

\* every indicator phrase and keyword of those frameworks
Phrases ==
  UNION { { t.strong[k] : k \in 1..Len(t.strong) }
            \cup { t.moderate[k] : k \in 1..Len(t.moderate) }
            \cup { t.keywords[k] : k \in 1..Len(t.keywords) } :
          t \in UNION { { f.riasec_types[k] : k \in 1..Len(f.riasec_types) } : f \in Frameworks } }

\* lower_chars of each phrase, evaluated once
LowerPhrase == [ p \in Phrases |-> lower_chars(p) ]

\* str.lower()
str_lower(s) == IF s \in Phrases THEN LowerPhrase[s] ELSE lower_chars(s)

(***************************************************************************)
(* Text processing                                                         *)
(***************************************************************************)
SEPARATORS == {"-", "_", "/", "\\", ".", ",", ";", ":", "|"}

\* the separators are left in the text
replace_separators_none(s) == s

\* re.sub(r'[-_/\\.,;:|]', ' ', text)
replace_separators(s) ==
  Join([ i \in 1..Len(s) |-> IF Char(s, i) \in SEPARATORS THEN " " ELSE Char(s, i) ])

\* every whitespace character becomes a space of its own
collapse_whitespace_each(s) ==
  Join([ i \in 1..Len(s) |-> IF Char(s, i) \in WHITESPACE THEN " " ELSE Char(s, i) ])

\* re.sub(r'\s+', ' ', text): the first character of a run of whitespace becomes
\* one space and the rest of the run goes
collapse_whitespace(s) ==
  Join([ i \in 1..Len(s) |->
           IF Char(s, i) \notin WHITESPACE THEN Char(s, i)
           ELSE IF i > 1 /\ Char(s, i - 1) \in WHITESPACE THEN ""
           ELSE " " ])

\* each step works on the value of the step before it
normalize_text(text) ==
  IF text = "" THEN ""
  ELSE Only({ strip(collapsed) :
              collapsed \in { collapse_whitespace(replaced) :
                              replaced \in { replace_separators(lowered) :
                                             lowered \in { str_lower(text) } } } })

\* re.sub(r'-\d+$', '', path): a final "-" followed by one or more digits is removed
remove_trailing_id(path) ==
  LET n == Len(path)
      cuts == { i \in 1..(n - 1) :
                  /\ Char(path, i) = "-"
                  /\ \A j \in (i + 1)..n : Char(path, j) \in CharsOf(DIGITS) }
  IN  IF cuts = {} THEN path
      ELSE SubSeq(path, 1, (CHOOSE i \in cuts : \A j \in cuts : i <= j) - 1)

extract_title_from_url(job_link) ==
  IF job_link = "" THEN ""
  ELSE IF Contains(job_link, "/view/")
       THEN LET path  == remove_trailing_id(SplitLast(job_link, "/view/"))
                path2 == IF Contains(path, "-at-") THEN SplitFirst(path, "-at-") ELSE path
            IN  str_title(strip(str_replace_char(path2, "-", " ")))
       ELSE ""
(***************************************************************************)
(* Classification logic                                                    *)
(***************************************************************************)
VARIABLES
  framework_file, \* what is at FRAMEWORK_PATH: "missing", "valid" or "malformed"
  FRAMEWORK,      \* the module-level framework, loaded once at import
  call,           \* arguments of the classify_job call whose result is held
  result,         \* what classify_job returned to its caller
  inferred,       \* what infer_riasec_from_skills returned to its caller
  earlier,        \* an earlier call, its result and the framework then, as kept by a caller
  scores_arg,     \* the scores dict handed to determine_riasec_code
  code,           \* what determine_riasec_code returned
  source,         \* the rows of the pipeline's input table, in file order
  title_col,      \* process_csv_file's title_col ("" for None)
  batch_size,     \* process_csv_file's batch_size
  sample_size,    \* process_csv_file's sample_size (0 for None)
  pc,             \* where process_csv_file is
  total_rows,     \* its total_rows
  processed,      \* its processed
  all_results,    \* its all_results
  output,         \* the rows written to output_path (none before the write)
  source_exists,  \* there is a file at input_path
  source_cols,    \* the columns of the input table
  details,        \* join_and_process's details table (None: not given)
  called,         \* the pipeline function that was called
  degraded,       \* "Join failed" and "Processing skills CSV only..." were printed
  write_failed,   \* output_path could not be opened for writing
  written,        \* a file was written at output_path
  returned,       \* the DataFrames returned to the caller: none, or one
  failure,        \* the exception that ended the run ("" for none)
  learners,       \* the rows of table learners, in insertion order
  learner_profiles, \* the rows of table learner_profiles
  learner_goals,  \* the rows of table learner_goals, in insertion order
  pathways,       \* the rows of table pathways, in insertion order
  journey,        \* the tool calls made so far
  learner_context, \* the context handed to determine_mode
  mode,           \* what determine_mode returned ("" before the call)
  agent_store     \* api/routes/chat.py: the agent of each learner, with its conversation history

Letters == {"R", "I", "A", "S", "E", "C"}

\* Mutant of SCORE_KEYS: the dicts are keyed in the framework's key order
SCORE_KEYS_framework == [ k \in 1..Len(FRAMEWORK.riasec_types) |-> FRAMEWORK.riasec_types[k].letter ]

\* `for letter in "RIASEC"`: the key order of the scores and matched dicts
SCORE_KEYS == << "R", "I", "A", "S", "E", "C" >>

RIASEC_TYPES == FRAMEWORK.riasec_types

COMBINATIONS == FRAMEWORK.combinations

\* no call made yet, nothing returned yet
None == [ none |-> TRUE ]

\* Mutant of InitialScores: the scores dict outlives the call and is not reset
InitialScores_kept ==
  IF earlier = None THEN [ letter \in {"R", "I", "A", "S", "E", "C"} |-> 0 ]
  ELSE earlier.result.scores

\* scores = {letter: 0.0 for letter in "RIASEC"}
InitialScores == [ letter \in Letters |-> 0 ]

\* matched = {letter: [] for letter in "RIASEC"}
InitialMatched == [ letter \in Letters |-> << >> ]

\* f"{skill}(+{weight})"
TraceEntry(skill, w) == skill \o "(+" \o WeightText(w) \o ")"

\* Mutant of TitleBonus: the bonus is given to every strong indicator found
TitleBonus_always(skill_lower, title_text) == TITLE_BONUS_WEIGHT

\* the bonus of a strong indicator found in combined_text: lines 176-178
TitleBonus(skill_lower, title_text) ==
  IF Contains(title_text, skill_lower) THEN TITLE_BONUS_WEIGHT ELSE 0

\* Mutant of AlreadyMatched: the moderate tier is not checked against the trace
AlreadyMatched_never(skill_lower, entries) == FALSE

\* any(skill_lower in m.lower() for m in matched[letter])
AlreadyMatched(skill_lower, entries) ==
  \E k \in 1..Len(entries) : Contains(str_lower(entries[k]), skill_lower)

RECURSIVE StrongLoop(_, _, _, _)
\* lines 170-178, over the indicators from position 1; acc is
\* [score, matched] of the letter
StrongLoop(skills, combined_text, title_text, acc) ==
  IF skills = << >> THEN acc
  ELSE LET skill       == Head(skills)
           skill_lower == str_lower(skill)
           next == IF Contains(combined_text, skill_lower)
                   THEN [ score   |-> acc.score + STRONG_INDICATOR_WEIGHT
                                        + TitleBonus(skill_lower, title_text),
                          matched |-> Append(acc.matched,
                                             TraceEntry(skill, STRONG_INDICATOR_WEIGHT)) ]
                   ELSE acc
       IN  StrongLoop(Tail(skills), combined_text, title_text, next)

RECURSIVE ModerateLoop(_, _, _)
\* lines 181-187
ModerateLoop(skills, combined_text, acc) ==
  IF skills = << >> THEN acc
  ELSE LET skill       == Head(skills)
           skill_lower == str_lower(skill)
           next == IF /\ Contains(combined_text, skill_lower)
                      /\ ~AlreadyMatched(skill_lower, acc.matched)
                   THEN [ score   |-> acc.score + MODERATE_INDICATOR_WEIGHT,
                          matched |-> Append(acc.matched,
                                             TraceEntry(skill, MODERATE_INDICATOR_WEIGHT)) ]
                   ELSE acc
       IN  ModerateLoop(Tail(skills), combined_text, next)

\* [s.lower() for s in indicators.get(tier, [])]
LowerList(skills) == [ k \in 1..Len(skills) |-> str_lower(skills[k]) ]

InList(x, list) == \E k \in 1..Len(list) : list[k] = x

RECURSIVE KeywordLoop(_, _, _, _, _)
\* lines 190-197
KeywordLoop(keywords, strong_list, moderate_list, combined_text, acc) ==
  IF keywords = << >> THEN acc
  ELSE LET keyword       == Head(keywords)
           keyword_lower == str_lower(keyword)
           next == IF /\ Contains(combined_text, keyword_lower)
                      /\ ~InList(keyword_lower, strong_list)
                      /\ ~InList(keyword_lower, moderate_list)
                   THEN [ score   |-> acc.score + KEYWORD_WEIGHT,
                          matched |-> Append(acc.matched,
                                             TraceEntry(keyword, KEYWORD_WEIGHT)) ]
                   ELSE acc
       IN  KeywordLoop(Tail(keywords), strong_list, moderate_list, combined_text, next)

\* the body of `for letter, type_data in RIASEC_TYPES.items()` for one category
ScoreType(type_data, combined_text, title_text, acc) ==
  KeywordLoop(type_data.keywords, LowerList(type_data.strong), LowerList(type_data.moderate),
              combined_text,
              ModerateLoop(type_data.moderate, combined_text,
                           StrongLoop(type_data.strong, combined_text, title_text, acc)))

RECURSIVE ScoreTypes(_, _, _, _)
\* the loop over RIASEC_TYPES.items(), in the framework's key order; state[letter]
\* is [score |-> scores[letter], matched |-> matched[letter]]
ScoreTypes(types, combined_text, title_text, state) ==
  IF types = << >> THEN state
  ELSE LET type_data == Head(types)
           letter    == type_data.letter
       IN  ScoreTypes(Tail(types), combined_text, title_text,
                      [ state EXCEPT ![letter] =
                          ScoreType(type_data, combined_text, title_text, @) ])

calculate_riasec_scores(skills_text, job_title) ==
  Only({ LET state == ScoreTypes(RIASEC_TYPES, combined_text, title_text,
                                 [ letter \in Letters |->
                                     [ score   |-> InitialScores[letter],
                                       matched |-> InitialMatched[letter] ] ])
         IN  [ scores  |-> [ letter \in Letters |-> state[letter].score ],
               matched |-> [ letter \in Letters |-> state[letter].matched ] ] :
         combined_text \in { normalize_text(job_title \o " " \o skills_text) },
         title_text \in { normalize_text(job_title) } })

\* scores.items(): (letter, score) pairs in the dict's key order
ScoreItems(scores) == [ k \in 1..Len(SCORE_KEYS) |-> << SCORE_KEYS[k], scores[SCORE_KEYS[k]] >> ]

RECURSIVE InsertDesc_unstable(_, _)
\* Mutant of InsertDesc: an item goes before the items of equal score
InsertDesc_unstable(sorted, item) ==
  IF sorted = << >> THEN << item >>
  ELSE IF Head(sorted)[2] > item[2]
       THEN << Head(sorted) >> \o InsertDesc_unstable(Tail(sorted), item)
       ELSE << item >> \o sorted

RECURSIVE InsertDesc(_, _)
\* item placed after every item whose score is not smaller: a stable descending sort
InsertDesc(sorted, item) ==
  IF sorted = << >> THEN << item >>
  ELSE IF Head(sorted)[2] >= item[2]
       THEN << Head(sorted) >> \o InsertDesc(Tail(sorted), item)
       ELSE << item >> \o sorted

\* the items in the dict's order, not sorted
SortedDesc_as_given(items, sorted) == items

RECURSIVE SortedDesc(_, _)
\* sorted(items, key=lambda x: x[1], reverse=True): stable, equal scores keep
\* the order of items
SortedDesc(items, sorted) ==
  IF items = << >> THEN sorted
  ELSE SortedDesc(Tail(items), InsertDesc(sorted, Head(items)))

RECURSIVE TopPositive(_, _)
\* lines 207-210
TopPositive(sorted_scores, top_3) ==
  IF sorted_scores = << >> THEN top_3
  ELSE TopPositive(Tail(sorted_scores),
                   IF Head(sorted_scores)[2] > 0 /\ Len(top_3) < 3
                   THEN Append(top_3, Head(sorted_scores)[1])
                   ELSE top_3)

\* Mutant of Remaining: the code is not filled up to three letters
Remaining_none(sorted_scores, top_3) == << >>

\* [letter for letter, _ in sorted_scores if letter not in top_3]
Remaining(sorted_scores, top_3) ==
  SelectSeq([ k \in 1..Len(sorted_scores) |-> sorted_scores[k][1] ],
            LAMBDA letter : ~InList(letter, top_3))

Prefix(seq, n) == SubSeq(seq, 1, IF n < Len(seq) THEN n ELSE Len(seq))

determine_riasec_code(scores) ==
  LET sorted_scores == SortedDesc(ScoreItems(scores), << >>)
      positive      == TopPositive(sorted_scores, << >>)
      top_3 == IF Len(positive) < 3
               THEN positive \o Prefix(Remaining(sorted_scores, positive), 3 - Len(positive))
               ELSE positive
  IN  Join(Prefix(top_3, 3))

Min(a, b) == IF a <= b THEN a ELSE b

RECURSIVE SumOver(_, _)
SumOver(scores, keys) ==
  IF keys = << >> THEN 0 ELSE scores[Head(keys)] + SumOver(scores, Tail(keys))

\* sum(scores.values())
TotalScore(scores) == SumOver(scores, SCORE_KEYS)

\* sorted(scores.values(), reverse=True)[0]
TopScore(scores) == SortedDesc(ScoreItems(scores), << >>)[1][2]

\* Mutant of calculate_confidence: neither evidence_factor nor the result is capped
calculate_confidence_uncapped(scores) ==
  LET total_score == TotalScore(scores)
      top_score   == TopScore(scores)
  IN  IF total_score = 0 THEN [ num |-> 0, den |-> 1 ]
      ELSE [ num |-> 600 * top_score + 4 * total_score * total_score,
             den |-> 1000 * total_score ]

\* Mutant of calculate_confidence: dominance is taken from sorted_scores[1],
\* the runner-up, instead of sorted_scores[0]
calculate_confidence_runner_up(scores) ==
  LET total_score == TotalScore(scores)
      top_score   == SortedDesc(ScoreItems(scores), << >>)[2][2]
      num == 600 * top_score + 4 * Min(total_score, 100) * total_score
      den == 1000 * total_score
  IN  IF total_score = 0 THEN [ num |-> 0, den |-> 1 ]
      ELSE [ num |-> Min(num, den), den |-> den ]

\* The confidence as the exact fraction num/den.  With top and total in tenths,
\*   dominance * 0.6 + evidence_factor * 0.4
\*     = 0.6 * top / total + 0.4 * min(total / 10, 1.0)
\*     = (600 * top + 4 * min(total, 100) * total) / (1000 * total)
\* and min(confidence, 1.0) caps the numerator at the denominator.
calculate_confidence(scores) ==
  LET total_score == TotalScore(scores)
      top_score   == TopScore(scores)
      num == 600 * top_score + 4 * Min(total_score, 100) * total_score
      den == 1000 * total_score
  IN  IF total_score = 0 THEN [ num |-> 0, den |-> 1 ]
      ELSE [ num |-> Min(num, den), den |-> den ]

\* Mutant of round3: the thousandths are cut off, not rounded
round3_cut(c) == (1000 * c.num) \div c.den

\* round(confidence, 3), in thousandths: the nearest thousandth, an exact half
\* going to the even one
round3(c) ==
  LET scaled == 1000 * c.num
      q == scaled \div c.den
      r == scaled % c.den
  IN  IF 2 * r < c.den THEN q
      ELSE IF 2 * r > c.den THEN q + 1
      ELSE IF q % 2 = 0 THEN q ELSE q + 1

\* Mutant of TypeName: the category's title is read instead of its name
TypeName_title(letter) ==
  IF \E k \in 1..Len(RIASEC_TYPES) : RIASEC_TYPES[k].letter = letter
  THEN RIASEC_TYPES[CHOOSE k \in 1..Len(RIASEC_TYPES) : RIASEC_TYPES[k].letter = letter].title
  ELSE "Unknown"

\* RIASEC_TYPES.get(letter, {}).get('name', 'Unknown')
TypeName(letter) ==
  IF \E k \in 1..Len(RIASEC_TYPES) : RIASEC_TYPES[k].letter = letter
  THEN RIASEC_TYPES[CHOOSE k \in 1..Len(RIASEC_TYPES) : RIASEC_TYPES[k].letter = letter].name
  ELSE "Unknown"

\* lines 260-262: the title comes from the link when none is given
EffectiveTitle(job_title, job_link) ==
  IF job_title = "" /\ job_link # "" THEN extract_title_from_url(job_link) ELSE job_title

\* Mutant of ResultOf: matched_indicators keeps the letters without a match
ResultOf_every_letter(scores, matched) ==
  Only({ [ riasec_code  |-> riasec_code,
           primary_type |-> TypeName(IF riasec_code # "" THEN Char(riasec_code, 1) ELSE "I"),
           scores       |-> scores,
           confidence   |-> round3(calculate_confidence(scores)),
           total_score  |-> TotalScore(scores),
           description  |-> IF riasec_code \in DOMAIN COMBINATIONS
                            THEN COMBINATIONS[riasec_code].description
                            ELSE "No description available",
           gift         |-> IF riasec_code \in DOMAIN COMBINATIONS
                            THEN COMBINATIONS[riasec_code].gift
                            ELSE "",
           matched_indicators |-> matched ] :
         riasec_code \in { determine_riasec_code(scores) } })

\* lines 264-295, from the scores and the trace of calculate_riasec_scores
ResultOf(scores, matched) ==
  Only({ [ riasec_code  |-> riasec_code,
           primary_type |-> TypeName(IF riasec_code # "" THEN Char(riasec_code, 1) ELSE "I"),
           scores       |-> scores,
           confidence   |-> round3(calculate_confidence(scores)),
           total_score  |-> TotalScore(scores),
           description  |-> IF riasec_code \in DOMAIN COMBINATIONS
                            THEN COMBINATIONS[riasec_code].description
                            ELSE "No description available",
           gift         |-> IF riasec_code \in DOMAIN COMBINATIONS
                            THEN COMBINATIONS[riasec_code].gift
                            ELSE "",
           matched_indicators |->
             [ k \in { l \in Letters : matched[l] # << >> } |-> matched[k] ] ] :
         riasec_code \in { determine_riasec_code(scores) } })

classify_job(skills_text, job_title, job_link) ==
  Only({ ResultOf(scored.scores, scored.matched) :
         scored \in { calculate_riasec_scores(skills_text,
                                              EffectiveTitle(job_title, job_link)) } })

\* tools/riasec_tools.py: ", ".join(skills)
JoinComma(skills) ==
  Join([ i \in 1..(2 * Len(skills) - 1) |->
           IF i % 2 = 1 THEN skills[(i + 1) \div 2] ELSE ", " ])

infer_riasec_from_skills(skills) ==
  Only({ [ riasec_code        |-> r.riasec_code,
           primary_type       |-> r.primary_type,
           confidence         |-> r.confidence,
           description        |-> r.description,
           scores             |-> r.scores,
           matched_indicators |-> r.matched_indicators ] :
         r \in { classify_job(JoinComma(skills), "", "") } })

(***************************************************************************)
(* The classifier as its callers drive it                                  *)
(***************************************************************************)
classifierVars == << framework_file, FRAMEWORK, call, result, inferred, earlier >>
codeVars       == << scores_arg, code >>
pipelineVars   == << source, title_col, batch_size, sample_size, pc, total_rows,
                     processed, all_results, output, source_exists, source_cols,
                     details, called,
                     degraded, write_failed, written, returned, failure >>
learnerVars    == << learners, learner_profiles, learner_goals, pathways, journey,
                     learner_context, mode >>
chatVars       == << agent_store >>
vars == << classifierVars, codeVars, pipelineVars, learnerVars, chatVars >>

\* Arguments the callers pass
SkillTexts ==
  { "",
    "xyz qwerty",
    "Python, SQL",
    "Python, SQL, Machine Learning, Data Analysis",
    "Graphic Design; creative hands-on repair",
    "Data entry and reporting with Excel",
    "Problem-Solving, Documentation, Teamwork" }

JobTitles == { "", "Data Analyst", "Data Scientist", "Data Analysis" }

JobLinks ==
  { "",
    "https://example.com/jobs/17",
    "https://www.linkedin.com/jobs/view/sales-manager-at-acme-4242" }

SkillLists ==
  { << >>,
    << "Python", "SQL", "Machine Learning", "Data Analysis" >>,
    << "Welding" >>,
    << "Figma", "design" >> }

\* The smaller argument set of the repeated-call specification
PureSkillTexts == { "", "Python, SQL", "Graphic Design; creative hands-on repair", "Data entry" }

PureJobTitles == { "", "Data Analyst", "Data Analysis" }

ClassifierIdle ==
  /\ call = None
  /\ result = None
  /\ inferred = None
  /\ earlier = None

CodeIdle ==
  /\ scores_arg = InitialScores
  /\ code = ""

PipelineIdle ==
  /\ source = << >>
  /\ title_col = ""
  /\ batch_size = 0
  /\ sample_size = 0
  /\ pc = "idle"
  /\ total_rows = 0
  /\ processed = 0
  /\ all_results = << >>
  /\ output = << >>
  /\ source_exists = FALSE
  /\ source_cols = {}
  /\ details = None
  /\ called = ""
  /\ degraded = FALSE
  /\ write_failed = FALSE
  /\ written = FALSE
  /\ returned = << >>
  /\ failure = ""

LearnerIdle ==
  /\ learners = << >>
  /\ learner_profiles = << >>
  /\ learner_goals = << >>
  /\ pathways = << >>
  /\ journey = << >>
  /\ learner_context = None
  /\ mode = ""

\* the learners the chat routes are called for
ChatLearners == { "L1", "L2" }

\* no agent in the store: `learner_id not in agent_store`
NoAgent == [ present |-> FALSE, conversation_history |-> << >> ]

ChatIdle == agent_store = [ learner_id \in ChatLearners |-> NoAgent ]

\* what json.load reads from a file in the given state
FileContent(state) == IF state = "malformed" THEN Malformed ELSE FrameworkFile

\* FRAMEWORK = load_framework() at import, with the file in one of the states
ImportModule(states) ==
  \E state \in states :
    /\ framework_file = state
    /\ FRAMEWORK = load_framework(state # "missing", FileContent(state))

\* the import when the file, if there, is a framework file
LoadFramework == ImportModule({ "missing", "valid" })

Init ==
  /\ LoadFramework
  /\ ClassifierIdle
  /\ CodeIdle
  /\ PipelineIdle
  /\ LearnerIdle
  /\ ChatIdle

\* a caller calls classify_job and holds what it returned
ClassifyJob(skills_text, job_title, job_link) ==
  /\ FRAMEWORK # ImportFailed
  /\ result = None
  /\ inferred = None
  /\ call' = [ skills_text |-> skills_text, job_title |-> job_title, job_link |-> job_link ]
  /\ result' = classify_job(skills_text, job_title, job_link)
  /\ UNCHANGED << framework_file, FRAMEWORK, inferred, earlier, codeVars, pipelineVars, learnerVars, chatVars >>

\* a caller calls infer_riasec_from_skills and holds what it returned
InferRiasecFromSkills(skills) ==
  /\ FRAMEWORK # ImportFailed
  /\ result = None
  /\ inferred = None
  /\ call' = [ skills_text |-> JoinComma(skills), job_title |-> "", job_link |-> "" ]
  /\ inferred' = infer_riasec_from_skills(skills)
  /\ UNCHANGED << framework_file, FRAMEWORK, result, earlier, codeVars, pipelineVars, learnerVars, chatVars >>

\* the caller is done with the result
Release ==
  /\ result # None \/ inferred # None
  /\ call' = None
  /\ result' = None
  /\ inferred' = None
  /\ UNCHANGED << framework_file, FRAMEWORK, earlier, codeVars, pipelineVars, learnerVars, chatVars >>

\* the caller keeps the call, its result and the framework it saw
Keep ==
  /\ result # None
  /\ earlier' = [ call |-> call, result |-> result, framework |-> FRAMEWORK ]
  /\ call' = None
  /\ result' = None
  /\ UNCHANGED << framework_file, FRAMEWORK, inferred, codeVars, pipelineVars, learnerVars, chatVars >>

Next ==
  \/ \E s \in SkillTexts, t \in JobTitles, l \in JobLinks : ClassifyJob(s, t, l)
  \/ \E skills \in SkillLists : InferRiasecFromSkills(skills)
  \/ Release

Spec == Init /\ [][Next]_vars

NextPure ==
  \/ \E s \in PureSkillTexts, t \in PureJobTitles : ClassifyJob(s, t, "")
  \/ Release
  \/ Keep

SpecPure == Init /\ [][NextPure]_vars

\* The import with any file at FRAMEWORK_PATH, and the calls that follow it
InitImport ==
  /\ ImportModule({ "missing", "valid", "malformed" })
  /\ ClassifierIdle
  /\ CodeIdle
  /\ PipelineIdle
  /\ LearnerIdle
  /\ ChatIdle

NextImport ==
  \/ \E s \in SkillTexts, t \in JobTitles, l \in JobLinks : ClassifyJob(s, t, l)
  \/ Release

SpecImport == InitImport /\ [][NextImport]_vars

(***************************************************************************)
(* determine_riasec_code on score vectors                                  *)
(***************************************************************************)
\* Scores are multiples of 0.5; a vector's entries go up to MaxScoreSteps halves
MaxScoreSteps == 2

ScoreValues == { 5 * k : k \in 0..MaxScoreSteps }

InitCode ==
  /\ LoadFramework
  /\ ClassifierIdle
  /\ scores_arg \in [ Letters -> ScoreValues ]
  /\ code = ""
  /\ PipelineIdle
  /\ LearnerIdle
  /\ ChatIdle

DetermineCode ==
  /\ code = ""
  /\ code' = determine_riasec_code(scores_arg)
  /\ UNCHANGED << scores_arg, classifierVars, pipelineVars, learnerVars, chatVars >>

NextCode == DetermineCode

SpecCode == InitCode /\ [][NextCode]_vars

(***************************************************************************)
(* The batch pipeline: scripts/process_jobs.py                             *)
(***************************************************************************)
\* A table has up to MaxRows rows; the window size goes up to one more than that
MaxRows == 3

\* sample_size is None (0) or a cap up to MaxSample
MaxSample == 1

\* The default column names of process_csv_file
link_col == "job_link"

skills_col == "job_skills"

\* Rows of a source table.  An empty cell stands for an empty or NULL field:
\* the code tests cells by truth value, which is false for both.
SourceRows ==
  { [ job_link |-> "x/view/data-analyst-at-acme-7", job_skills |-> "Python, SQL",
      job_title |-> "Analyst", company |-> "Acme" ],
    [ job_link |-> "x/view/welding-tech-at-bolt-3", job_skills |-> "",
      job_title |-> "", company |-> "Bolt" ] }

SourceTables == UNION { [ 1..n -> SourceRows ] : n \in 1..MaxRows }

extract_title_from_link(job_link) ==
  IF job_link = "" THEN ""
  ELSE IF Contains(job_link, "/view/")
       THEN LET path  == remove_trailing_id(SplitLast(job_link, "/view/"))
                path2 == IF Contains(path, "-at-") THEN SplitFirst(path, "-at-") ELSE path
            IN  str_title(strip(str_replace_char(path2, "-", " ")))
       ELSE ""

\* one iteration of the loop of process_batch: the row's result dict
ProcessRow(row, has_title) ==
  Only({ [ job_link            |-> row[1],
           job_skills          |-> row[2],
           extracted_title     |-> title,
           riasec_code         |-> classification.riasec_code,
           riasec_confidence   |-> classification.confidence,
           primary_riasec_type |-> classification.primary_type,
           riasec_total_score  |-> classification.total_score ] :
         title \in { IF has_title THEN row[3] ELSE extract_title_from_link(row[1]) },
         classification \in
           { classify_job(row[2],
                          IF has_title THEN row[3] ELSE extract_title_from_link(row[1]),
                          row[1]) } })

process_batch(batch_data, has_title) ==
  [ k \in 1..Len(batch_data) |-> ProcessRow(batch_data[k], has_title) ]

\* select_cols: lines 165-167
SelectCols(title) == IF title # "" THEN << link_col, skills_col, title >> ELSE << link_col, skills_col >>

\* Mutant of WindowLimit: the window is not clipped to the rows left
WindowLimit_whole(size, total, done) == size

\* limit = min(batch_size, total_rows - processed)
WindowLimit(size, total, done) == Min(size, total - done)

\* Mutant of FetchWindow: the OFFSET is left out, every window starts at the first row
FetchWindow_first(rows, cols, limit, offset) ==
  LET last == Min(limit, Len(rows))
  IN  [ k \in 1..last |-> [ c \in 1..Len(cols) |-> rows[k][cols[c]] ] ]

\* SELECT select_cols FROM input LIMIT limit OFFSET offset, with fetchall(): the
\* rows after the first offset ones, at most limit of them, as tuples
FetchWindow(rows, cols, limit, offset) ==
  LET last == Min(offset + limit, Len(rows))
  IN  [ k \in 1..(IF last > offset THEN last - offset ELSE 0) |->
          [ c \in 1..Len(cols) |-> rows[offset + k][cols[c]] ] ]


\* What is at an input path: whether there is a file, its columns and its rows
\* in file order
MissingFile == [ exists |-> FALSE, cols |-> {}, rows |-> << >> ]

SourceColumns == { "job_link", "job_skills", "job_title", "company" }

\* a skills file whose link column has another name
UnkeyedFile ==
  [ exists |-> TRUE, cols |-> { "url", "job_skills" },
    rows |-> << [ url |-> "x/view/data-analyst-at-acme-7", job_skills |-> "Python, SQL" ] >> ]

\* the files process_csv_file is given: up to MaxRows rows, no row, no file,
\* no link column
SourceFiles ==
  { [ exists |-> TRUE, cols |-> SourceColumns, rows |-> rows ] : rows \in SourceTables \cup { << >> } }
    \cup { MissingFile, UnkeyedFile }

\* lines 147-152
TotalRows(rows, sample) == IF sample # 0 THEN Min(Len(rows), sample) ELSE Len(rows)

\* Mutant of SaveFrame: the error of the write is caught and the run goes on
SaveFrame_swallowed(df, can_open) == [ written |-> can_open, failure |-> "" ]

\* df.to_parquet(output_path, ...) or df.to_csv(output_path, ...): the file is
\* opened, which raises when the path cannot be written, and then written
SaveFrame(df, can_open) ==
  IF can_open THEN [ written |-> TRUE, failure |-> "" ]
  ELSE [ written |-> FALSE, failure |-> "OSError" ]

\* lines 207-246: df['riasec_code'] raises on the frame of no results, which
\* has no column
Statistics(df) == IF Len(df) = 0 THEN "KeyError" ELSE ""

\* the body of process_csv_file up to its loop: lines 145-167
StartCsv(file, title, size, sample) ==
  /\ source' = file.rows
  /\ source_exists' = file.exists
  /\ source_cols' = file.cols
  /\ title_col' = title
  /\ batch_size' = size
  /\ sample_size' = sample
  /\ processed' = 0
  /\ all_results' = << >>
  /\ IF ~file.exists
     THEN /\ total_rows' = 0
          /\ pc' = "failed"
          /\ failure' = "IOException"
     ELSE /\ total_rows' = TotalRows(file.rows, sample)
          /\ pc' = "loop"
          /\ failure' = ""
  /\ UNCHANGED << output, write_failed, written, returned >>

\* process_csv_file is called
ProcessCsvFile(file, title, size, sample) ==
  /\ pc = "idle"
  /\ called' = "process_csv_file"
  /\ StartCsv(file, title, size, sample)
  /\ UNCHANGED << details, degraded, classifierVars, codeVars, learnerVars, chatVars >>

\* one iteration of `while processed < total_rows`: lines 169-194; the query
\* raises when the table lacks a selected column
Window ==
  /\ pc = "loop"
  /\ processed < total_rows
  /\ IF \A c \in 1..Len(SelectCols(title_col)) : SelectCols(title_col)[c] \in source_cols
     THEN \E batch_data \in { FetchWindow(source, SelectCols(title_col),
                                          WindowLimit(batch_size, total_rows, processed),
                                          processed) } :
            /\ all_results' = all_results \o process_batch(batch_data, title_col # "")
            /\ processed' = processed + Len(batch_data)
            /\ UNCHANGED << pc, failure >>
     ELSE /\ pc' = "failed"
          /\ failure' = "BinderException"
          /\ UNCHANGED << all_results, processed >>
  /\ UNCHANGED << source, title_col, batch_size, sample_size, total_rows, output,
                  source_exists, source_cols, details, called, degraded, write_failed,
                  written, returned,
                  classifierVars, codeVars, learnerVars, chatVars >>

\* the loop is left: the DataFrame of all_results is written, the statistics
\* are printed and the frame is returned: lines 196-249
Save ==
  /\ pc = "loop"
  /\ ~(processed < total_rows)
  /\ \E can_open \in BOOLEAN :
       \E saved \in { SaveFrame(all_results, can_open) } :
         /\ write_failed' = ~can_open
         /\ written' = saved.written
         /\ output' = IF saved.written THEN all_results ELSE output
         /\ failure' = IF saved.failure # "" THEN saved.failure ELSE Statistics(all_results)
  /\ pc' = IF failure' = "" THEN "done" ELSE "failed"
  /\ returned' = IF failure' = "" THEN << all_results >> ELSE returned
  /\ UNCHANGED << source, title_col, batch_size, sample_size, total_rows, processed,
                  all_results, source_exists, source_cols, details, called, degraded,
                  classifierVars, codeVars, learnerVars, chatVars >>

(***************************************************************************)
(* join_and_process                                                        *)
(***************************************************************************)
\* Rows of a details table
DetailsRows ==
  << [ job_link |-> "x/view/data-analyst-at-acme-7", job_title |-> "Data Analysis Lead",
       company |-> "Acme" ],
     [ job_link |-> "x/view/welding-tech-at-bolt-3", job_title |-> "", company |-> "Bolt" ] >>

\* a details file whose link column has another name
UnkeyedDetails ==
  [ exists |-> TRUE, cols |-> { "url", "title" },
    rows |-> << [ url |-> "x/view/data-analyst-at-acme-7", title |-> "Analyst" ] >> ]

DetailsFiles ==
  { [ exists |-> TRUE, cols |-> { "job_link", "job_title", "company" }, rows |-> rows ] :
      rows \in { DetailsRows, SubSeq(DetailsRows, 2, 2), << >> } }
    \cup { MissingFile, UnkeyedDetails }

\* the skills files join_and_process is given
SkillsFiles ==
  { [ exists |-> TRUE, cols |-> SourceColumns \ { "job_title", "company" },
      rows |-> [ k \in 1..Len(rows) |->
                   [ job_link |-> rows[k].job_link, job_skills |-> rows[k].job_skills ] ] ] :
      rows \in { t \in SourceTables : Len(t) <= 2 } \cup { << >> } }
    \cup { MissingFile, UnkeyedFile }

TITLE_COLUMNS == << "job_title", "title", "Job Title", "position" >>

\* lines 279-284: the first of TITLE_COLUMNS the details table has ("" for None)
FindTitleCol(detail_cols) ==
  LET found == SelectSeq(TITLE_COLUMNS, LAMBDA col : col \in detail_cols)
  IN  IF found = << >> THEN "" ELSE found[1]

\* the count query of lines 289-292 raises when a file is missing or a table
\* has no job_link column
CanJoin(skills, details_file) ==
  /\ skills.exists
  /\ details_file.exists
  /\ link_col \in skills.cols
  /\ link_col \in details_file.cols

\* the columns of the joined query: lines 306-311
JoinCols(title, detail_cols) ==
  { link_col, skills_col } \cup (IF title # "" THEN { "job_title" } ELSE {})
    \cup (detail_cols \ { link_col, title })

\* one row of skills s INNER JOIN details d ON s.job_link = d.job_link
JoinedRow(s, d, title, detail_cols) ==
  [ c \in JoinCols(title, detail_cols) |->
      IF c = link_col THEN s[link_col]
      ELSE IF c = skills_col THEN s[skills_col]
      ELSE IF c = "job_title" /\ title # "" THEN d[title]
      ELSE d[c] ]

\* the pairs of row numbers the join matches; an empty link is NULL and matches nothing
JoinPairs(skills_rows, details_rows) ==
  { p \in (1..Len(skills_rows)) \X (1..Len(details_rows)) :
      /\ skills_rows[p[1]][link_col] # ""
      /\ skills_rows[p[1]][link_col] = details_rows[p[2]][link_col] }

\* The results of the joined query.  The query has no ORDER BY, so each
\* execution returns the matched pairs in some order.
JoinResults(skills_rows, details_rows, title, detail_cols) ==
  LET pairs == JoinPairs(skills_rows, details_rows)
      n     == Cardinality(pairs)
  IN  { [ k \in 1..n |-> JoinedRow(skills_rows[order[k][1]], details_rows[order[k][2]],
                                   title, detail_cols) ] :
        order \in { o \in [ 1..n -> pairs ] : \A i, j \in 1..n : o[i] = o[j] => i = j } }

\* LIMIT limit OFFSET offset of one execution
Page(rows, limit, offset) ==
  LET last == Min(offset + limit, Len(rows))
  IN  [ k \in 1..(IF last > offset THEN last - offset ELSE 0) |-> rows[offset + k] ]

\* the body of `for _, row in batch_df.iterrows()`: lines 329-346
JoinProcessRow(row) ==
  Only({ [ c \in DOMAIN row \cup { "extracted_title", "riasec_code", "riasec_confidence",
                                   "primary_riasec_type" } |->
             IF c = "extracted_title" THEN title
             ELSE IF c = "riasec_code" THEN classification.riasec_code
             ELSE IF c = "riasec_confidence" THEN classification.confidence
             ELSE IF c = "primary_riasec_type" THEN classification.primary_type
             ELSE row[c] ] :
         title \in { IF "job_title" \in DOMAIN row /\ row["job_title"] # ""
                     THEN row["job_title"]
                     ELSE extract_title_from_link(row[link_col]) },
         classification \in
           { classify_job(row[skills_col],
                          IF "job_title" \in DOMAIN row /\ row["job_title"] # ""
                          THEN row["job_title"]
                          ELSE extract_title_from_link(row[link_col]),
                          row[link_col]) } })

\* join_and_process is called: lines 261-313.  Reading the details file is
\* outside the try; a count query that raises prints the degradation and
\* hands over to process_csv_file(skills_csv, output_path, batch_size=batch_size).
JoinAndProcess(skills, details_file, size) ==
  /\ pc = "idle"
  /\ called' = "join_and_process"
  /\ details' = details_file
  /\ IF ~details_file.exists
     THEN /\ pc' = "failed"
          /\ failure' = "IOException"
          /\ source' = skills.rows
          /\ source_exists' = skills.exists
          /\ source_cols' = skills.cols
          /\ batch_size' = size
          /\ UNCHANGED << title_col, sample_size, total_rows, processed, all_results,
                          output, degraded, write_failed, written, returned >>
     ELSE IF ~CanJoin(skills, details_file)
     THEN /\ degraded' = TRUE
          /\ StartCsv(skills, "", size, 0)
     ELSE /\ source' = skills.rows
          /\ source_exists' = skills.exists
          /\ source_cols' = skills.cols
          /\ batch_size' = size
          /\ title_col' = FindTitleCol(details_file.cols)
          /\ total_rows' = Cardinality(JoinPairs(skills.rows, details_file.rows))
          /\ processed' = 0
          /\ all_results' = << >>
          /\ pc' = "join_loop"
          /\ UNCHANGED << sample_size, output, degraded, write_failed, written, returned, failure >>
  /\ UNCHANGED << classifierVars, codeVars, learnerVars, chatVars >>

\* one iteration of `while offset < match_count` (total_rows is match_count,
\* processed is offset): lines 315-354
JoinWindow ==
  /\ pc = "join_loop"
  /\ processed < total_rows
  /\ IF skills_col \in source_cols
     THEN \E rows \in JoinResults(source, details.rows, title_col, details.cols) :
            \E batch_df \in { Page(rows, batch_size, processed) } :
              /\ all_results' = all_results \o
                                  [ k \in 1..Len(batch_df) |-> JoinProcessRow(batch_df[k]) ]
              /\ processed' = processed + Len(batch_df)
              /\ UNCHANGED << pc, failure >>
     ELSE /\ pc' = "failed"
          /\ failure' = "BinderException"
          /\ UNCHANGED << all_results, processed >>
  /\ UNCHANGED << source, title_col, batch_size, sample_size, total_rows, output,
                  source_exists, source_cols, details, called, degraded, write_failed,
                  written, returned, classifierVars, codeVars, learnerVars, chatVars >>

\* the loop is left: the DataFrame is written and returned: lines 356-368
JoinSave ==
  /\ pc = "join_loop"
  /\ ~(processed < total_rows)
  /\ \E can_open \in BOOLEAN :
       \E saved \in { SaveFrame(all_results, can_open) } :
         /\ write_failed' = ~can_open
         /\ written' = saved.written
         /\ output' = IF saved.written THEN all_results ELSE output
         /\ failure' = saved.failure
  /\ pc' = IF failure' = "" THEN "done" ELSE "failed"
  /\ returned' = IF failure' = "" THEN << all_results >> ELSE returned
  /\ UNCHANGED << source, title_col, batch_size, sample_size, total_rows, processed,
                  all_results, source_exists, source_cols, details, called, degraded,
                  classifierVars, codeVars, learnerVars, chatVars >>

NextPipeline ==
  \/ \E file \in SourceFiles, title \in {"", "job_title"},
        size \in 1..(MaxRows + 1), sample \in 0..MaxSample :
       ProcessCsvFile(file, title, size, sample)
  \/ \E skills \in SkillsFiles, details_file \in DetailsFiles, size \in 1..(MaxRows + 1) :
       JoinAndProcess(skills, details_file, size)
  \/ Window
  \/ Save
  \/ JoinWindow
  \/ JoinSave

SpecPipeline == Init /\ [][NextPipeline]_vars

\* The code in a loop or right after it takes its next step: an iteration
\* moves the cursor or its query raises, and the code after the loop ends the
\* run.  The step is told by pc and the cursor alone.
LoopRuns ==
  /\ pc \in { "loop", "join_loop" }
  /\ pc' \in { "loop", "join_loop", "done", "failed" }
  /\ processed' \in 0..total_rows
  /\ pc' # pc \/ processed' # processed

\* The loops are sequential code that nothing suspends: while the run is in a
\* loop or right after it, its next step is taken.
SpecPipelineFair == SpecPipeline /\ WF_<<pc, processed>>(LoopRuns)

\* The window sizes --batch-size takes (type=int, no lower bound), from 0 up
WindowSizes == 0..(MaxRows + 1)

NextWindowSizes ==
  \/ \E file \in SourceFiles, title \in {"", "job_title"},
        size \in WindowSizes, sample \in 0..MaxSample :
       ProcessCsvFile(file, title, size, sample)
  \/ Window
  \/ Save

SpecWindowSizes == Init /\ [][NextWindowSizes]_vars

(***************************************************************************)
(* The learner tools (tools/learner_tools.py, tools/pathway_tools.py) and  *)
(* determine_mode (agent/system_prompt.py)                                 *)
(***************************************************************************)
\* A Python dict is a function from its keys; a table row is the dict of its
\* columns.  Only the columns the tools and determine_mode read are kept.
EmptyDict == [ k \in {} |-> TRUE ]

\* d.get(k, default)
Get(d, k, default) == IF k \in DOMAIN d THEN d[k] ELSE default

\* d.get("status") == value
StatusIs(d, value) == "status" \in DOMAIN d /\ d["status"] = value

\* Mutant of determine_mode: the committed goal is looked at before the pathway
determine_mode_goal_first(context) ==
  IF DOMAIN context = {} THEN "INTAKE"
  ELSE LET learner == Get(context, "learner", EmptyDict)
           profile == Get(context, "profile", EmptyDict)
           goals   == Get(context, "goals", << >>)
           pathway == Get(context, "active_pathway", None)
       IN  IF StatusIs(learner, "new") \/ Get(profile, "profile_complete", FALSE) # TRUE
           THEN "INTAKE"
           ELSE IF goals # << >> /\ StatusIs(goals[1], "committed") THEN "PATHWAY"
           ELSE IF pathway # None /\ StatusIs(pathway, "active") THEN "LEARNING"
           ELSE "GOAL_DISCOVERY"

\* determine_mode: lines 250-280.  profile_complete is True, False or absent.
determine_mode(context) ==
  IF DOMAIN context = {} THEN "INTAKE"
  ELSE LET learner == Get(context, "learner", EmptyDict)
           profile == Get(context, "profile", EmptyDict)
           goals   == Get(context, "goals", << >>)
           pathway == Get(context, "active_pathway", None)
       IN  IF StatusIs(learner, "new") \/ Get(profile, "profile_complete", FALSE) # TRUE
           THEN "INTAKE"
           ELSE IF pathway # None /\ StatusIs(pathway, "active") THEN "LEARNING"
           ELSE IF goals # << >> /\ StatusIs(goals[1], "committed") THEN "PATHWAY"
           ELSE "GOAL_DISCOVERY"

\* ORDER BY created_at DESC: the rows inserted last come first
NewestFirst(rows) == [ k \in 1..Len(rows) |-> rows[Len(rows) + 1 - k] ]

\* get_learner_context: lines 10-70 (without the skills and pathway_skills keys)
get_learner_context(learner_id) ==
  LET learner  == SelectSeq(learners, LAMBDA row : row.id = learner_id)
      profile  == SelectSeq(learner_profiles, LAMBDA row : row["learner_id"] = learner_id)
      goals    == NewestFirst(SelectSeq(learner_goals,
                                        LAMBDA row : row.learner_id = learner_id))
      pathway_rows == NewestFirst(SelectSeq(pathways,
                        LAMBDA row : row.learner_id = learner_id /\ row.status = "active"))
  IN  IF Len(learner) = 0 THEN [ error |-> "Learner not found" ]
      ELSE [ learner |-> learner[1],
             profile |-> IF Len(profile) > 0 THEN profile[1] ELSE EmptyDict,
             goals   |-> goals,
             active_pathway |-> IF Len(pathway_rows) > 0 THEN pathway_rows[1] ELSE None ]

\* The tools are called at most MaxCalls times, for at most MaxLearners learners,
\* and with the id of a learner that was created
MaxCalls == 4

MaxLearners == 1

ALLOWED_FIELDS ==
  { "current_job_title", "current_industry", "years_experience", "education_level",
    "weekly_study_hours", "preferred_study_times", "has_family_obligations",
    "employment_status", "preferred_format", "disposition", "inferred_riasec_code",
    "profile_complete" }

\* the updates dicts the callers pass
Updates ==
  { [ profile_complete |-> TRUE ], [ profile_complete |-> FALSE ],
    [ current_job_title |-> "Beginner", profile_complete |-> TRUE ],
    [ nickname |-> "Sam" ] }

\* the tool call as the journey records it
Called(tool, learner_id, arg) == [ tool |-> tool, learner |-> learner_id, arg |-> arg ]

\* a tool was called: the mode computed before is out of date
ToolCalled(tool, learner_id, arg) ==
  /\ Len(journey) < MaxCalls
  /\ journey' = Append(journey, Called(tool, learner_id, arg))
  /\ learner_context' = None
  /\ mode' = ""

\* create_learner with an email no learner has: lines 188-213
CreateLearner ==
  /\ Len(learners) < MaxLearners
  /\ ToolCalled("create_learner", Len(learners) + 1, "")
  /\ learners' = Append(learners, [ id |-> Len(learners) + 1, status |-> "new" ])
  /\ UNCHANGED << learner_profiles, learner_goals, pathways,
                  classifierVars, codeVars, pipelineVars, chatVars >>

\* update_learner_profile: lines 73-122
UpdateLearnerProfile(learner_id, updates) ==
  /\ \E i \in 1..Len(learners) : learners[i].id = learner_id
  /\ ToolCalled("update_learner_profile", learner_id, updates)
  /\ LET update_fields == [ k \in DOMAIN updates \cap ALLOWED_FIELDS |-> updates[k] ]
         existing == { i \in 1..Len(learner_profiles) :
                         learner_profiles[i]["learner_id"] = learner_id }
     IN  IF DOMAIN update_fields = {}
         THEN UNCHANGED learner_profiles
         ELSE IF existing = {}
         THEN learner_profiles' =
                Append(learner_profiles,
                       [ k \in DOMAIN update_fields \cup { "learner_id" } |->
                           IF k = "learner_id" THEN learner_id ELSE update_fields[k] ])
         ELSE learner_profiles' =
                [ i \in 1..Len(learner_profiles) |->
                    IF i \in existing
                    THEN [ k \in DOMAIN learner_profiles[i] \cup DOMAIN update_fields |->
                             IF k \in DOMAIN update_fields THEN update_fields[k]
                             ELSE learner_profiles[i][k] ]
                    ELSE learner_profiles[i] ]
  /\ UNCHANGED << learners, learner_goals, pathways, classifierVars, codeVars, pipelineVars, chatVars >>

\* set_learner_goal: lines 159-185
SetLearnerGoal(learner_id, status) ==
  /\ \E i \in 1..Len(learners) : learners[i].id = learner_id
  /\ ToolCalled("set_learner_goal", learner_id, status)
  /\ learner_goals' = Append(learner_goals,
                             [ id |-> Len(learner_goals) + 1, learner_id |-> learner_id,
                               status |-> status ])
  /\ UNCHANGED << learners, learner_profiles, pathways, classifierVars, codeVars, pipelineVars, chatVars >>

\* create_pathway: lines 10-64 of pathway_tools.py
CreatePathway(learner_id, goal_id) ==
  /\ \E i \in 1..Len(learners) : learners[i].id = learner_id
  /\ ToolCalled("create_pathway", learner_id, goal_id)
  /\ IF \E i \in 1..Len(learner_goals) :
          learner_goals[i].id = goal_id /\ learner_goals[i].learner_id = learner_id
     THEN pathways' = Append(pathways,
                             [ id |-> Len(pathways) + 1, learner_id |-> learner_id,
                               goal_id |-> goal_id, status |-> "active" ])
     ELSE UNCHANGED pathways
  /\ UNCHANGED << learners, learner_profiles, learner_goals,
                  classifierVars, codeVars, pipelineVars, chatVars >>

\* determine_mode(get_learner_context(learner_id))
DetermineMode(learner_id) ==
  /\ mode = ""
  /\ learner_context' = get_learner_context(learner_id)
  /\ mode' = determine_mode(get_learner_context(learner_id))
  /\ UNCHANGED << learners, learner_profiles, learner_goals, pathways, journey,
                  classifierVars, codeVars, pipelineVars, chatVars >>

LearnerIds == 1..MaxLearners

NextLearner ==
  \/ CreateLearner
  \/ \E id \in LearnerIds, updates \in Updates :
       UpdateLearnerProfile(id, updates)
  \/ \E id \in LearnerIds, status \in { "exploring", "committed" } :
       SetLearnerGoal(id, status)
  \/ \E id \in LearnerIds, goal_id \in 1..MaxCalls :
       CreatePathway(id, goal_id)
  \/ \E id \in LearnerIds : DetermineMode(id)

SpecLearner == Init /\ [][NextLearner]_vars

\* Contexts handed to determine_mode directly
MaxGoals == 2

GoalDicts == { [ status |-> "committed" ], [ status |-> "exploring" ] }

Contexts ==
  { EmptyDict, [ error |-> "Learner not found" ] }
    \cup { [ learner |-> learner, profile |-> profile, goals |-> goals,
             active_pathway |-> pathway ] :
           learner \in { EmptyDict, [ id |-> 1, status |-> "new" ],
                         [ id |-> 1, status |-> "active" ] },
           profile \in { EmptyDict, [ profile_complete |-> TRUE ],
                         [ profile_complete |-> FALSE ] },
           goals \in UNION { [ 1..n -> GoalDicts ] : n \in 0..MaxGoals },
           pathway \in { None, [ id |-> 1, status |-> "active" ],
                         [ id |-> 1, status |-> "paused" ] } }

InitMode ==
  /\ LoadFramework
  /\ ClassifierIdle
  /\ CodeIdle
  /\ PipelineIdle
  /\ learners = << >>
  /\ learner_profiles = << >>
  /\ learner_goals = << >>
  /\ pathways = << >>
  /\ journey = << >>
  /\ learner_context \in Contexts
  /\ ChatIdle
  /\ mode = ""

DetermineModeOf ==
  /\ mode = ""
  /\ learner_context # None
  /\ mode' = determine_mode(learner_context)
  /\ UNCHANGED << learners, learner_profiles, learner_goals, pathways, journey,
                  learner_context, classifierVars, codeVars, pipelineVars, chatVars >>

NextMode == DetermineModeOf

SpecMode == InitMode /\ [][NextMode]_vars

(***************************************************************************)
(* tools/riasec_tools.py: compare_riasec_codes                             *)
(***************************************************************************)
\* str.upper(), character by character
upper_chars(s) == Join([ i \in 1..Len(s) |-> upper_char(Char(s, i)) ])

\* the fit level and the recommendation of a fit score
FitLevel(fit_score) ==
  IF fit_score >= 80
  THEN [ fit_level |-> "Excellent",
         recommendation |-> "Strong match - your interests align very well with this role" ]
  ELSE IF fit_score >= 50
  THEN [ fit_level |-> "Good",
         recommendation |-> "Good match - your primary interests align with this role" ]
  ELSE IF fit_score >= 30
  THEN [ fit_level |-> "Moderate",
         recommendation |-> "Moderate match - some shared interests but significant differences" ]
  ELSE [ fit_level |-> "Low",
         recommendation |-> "Limited match - this role may be quite different from your natural preferences" ]

\* Mutant of compare_riasec_codes: the codes are compared as given, not upper-cased
compare_riasec_codes_as_given(learner_riasec, job_riasec) ==
  LET learner == learner_riasec
      job     == job_riasec
      primary_match   == Char(learner, 1) = Char(job, 1)
      secondary_match == Len(learner) > 1 /\ Len(job) > 1 /\ Char(learner, 2) = Char(job, 2)
      tertiary_match  == Len(learner) > 2 /\ Len(job) > 2 /\ Char(learner, 3) = Char(job, 3)
      shared          == CharsOf(learner) \cap CharsOf(job)
      overlap_count   == Cardinality(shared)
      fit_score ==
          (IF primary_match THEN 50 ELSE 0)
        + (IF secondary_match THEN 30 ELSE 0)
        + (IF tertiary_match THEN 20
           ELSE IF overlap_count > 1 THEN (overlap_count - 1) * 10 ELSE 0)
  IN  [ learner_riasec  |-> learner,
        job_riasec      |-> job,
        fit_score       |-> fit_score,
        fit_level       |-> FitLevel(fit_score).fit_level,
        recommendation  |-> FitLevel(fit_score).recommendation,
        primary_match   |-> primary_match,
        secondary_match |-> secondary_match,
        tertiary_match  |-> tertiary_match,
        shared_types    |-> shared ]

\* shared_types, a list made from a set, is kept as the set of its letters
compare_riasec_codes(learner_riasec, job_riasec) ==
  LET learner == upper_chars(learner_riasec)
      job     == upper_chars(job_riasec)
      primary_match   == Char(learner, 1) = Char(job, 1)
      secondary_match == Len(learner) > 1 /\ Len(job) > 1 /\ Char(learner, 2) = Char(job, 2)
      tertiary_match  == Len(learner) > 2 /\ Len(job) > 2 /\ Char(learner, 3) = Char(job, 3)
      shared          == CharsOf(learner) \cap CharsOf(job)
      overlap_count   == Cardinality(shared)
      fit_score ==
          (IF primary_match THEN 50 ELSE 0)
        + (IF secondary_match THEN 30 ELSE 0)
        + (IF tertiary_match THEN 20
           ELSE IF overlap_count > 1 THEN (overlap_count - 1) * 10 ELSE 0)
  IN  [ learner_riasec  |-> learner,
        job_riasec      |-> job,
        fit_score       |-> fit_score,
        fit_level       |-> FitLevel(fit_score).fit_level,
        recommendation  |-> FitLevel(fit_score).recommendation,
        primary_match   |-> primary_match,
        secondary_match |-> secondary_match,
        tertiary_match  |-> tertiary_match,
        shared_types    |-> shared ]

\* every string of three category letters, a letter possibly repeated
UpperCodes == { a \o b \o c : a \in Letters, b \in Letters, c \in Letters }

\* the codes over three of the letters
FewLetters == {"I", "R", "A"}

FewCodes == { a \o b \o c : a \in FewLetters, b \in FewLetters, c \in FewLetters }

\* codes as a caller may type them: upper case, lower case, or capitalised
TypedCodes ==
  FewCodes
    \cup { lower_chars(c) : c \in FewCodes }
    \cup { Char(c, 1) \o lower_chars(SubSeq(c, 2, 3)) : c \in FewCodes }

\* a caller calls compare_riasec_codes with two of the codes and holds what it
\* returned
CompareRiasecCodes(codes) ==
  /\ result = None
  /\ inferred = None
  /\ \E learner_riasec \in codes, job_riasec \in codes :
       /\ call' = [ learner_riasec |-> learner_riasec, job_riasec |-> job_riasec ]
       /\ result' = compare_riasec_codes(learner_riasec, job_riasec)
  /\ UNCHANGED << framework_file, FRAMEWORK, inferred, earlier, codeVars, pipelineVars, learnerVars, chatVars >>

NextCompare ==
  \/ CompareRiasecCodes(UpperCodes)
  \/ CompareRiasecCodes(TypedCodes)
  \/ Release

SpecCompare == Init /\ [][NextCompare]_vars

(***************************************************************************)
(* calculate_confidence on score vectors, before and after the top score   *)
(* of the vector is raised                                                 *)
(***************************************************************************)
\* The scores one phrase can add to a category, in tenths, and none
PhraseScores == { 0, MODERATE_INDICATOR_WEIGHT, STRONG_INDICATOR_WEIGHT }

\* A raise of the top score is up to MaxRaiseSteps halves
MaxRaiseSteps == 3

\* The top category has up to MaxTopPhrases strong title matches more than the
\* others
MaxTopPhrases == 2

Raises == { 5 * k : k \in 1..MaxRaiseSteps }

TopExtras == { k * (STRONG_INDICATOR_WEIGHT + TITLE_BONUS_WEIGHT) : k \in 0..MaxTopPhrases }

\* the score vectors the confidence is taken of: one phrase score per
\* category, and more on one of them
ConfidenceVectors ==
  { [ s EXCEPT ![letter] = @ + extra ] :
      s \in [ Letters -> PhraseScores ], letter \in {"I"}, extra \in TopExtras }

InitConfidence ==
  /\ LoadFramework
  /\ ClassifierIdle
  /\ scores_arg \in ConfidenceVectors
  /\ code = ""
  /\ PipelineIdle
  /\ LearnerIdle
  /\ ChatIdle

\* a caller takes the confidence of the vector and holds it
CalculateConfidence ==
  /\ result = None
  /\ call' = [ scores |-> scores_arg ]
  /\ result' = calculate_confidence(scores_arg)
  /\ UNCHANGED << framework_file, FRAMEWORK, inferred, earlier, codeVars, pipelineVars, learnerVars, chatVars >>

\* the caller keeps the vector and its confidence, and the score of a
\* top-scoring category goes up while the other five stay
RaiseTopScore ==
  /\ result # None
  /\ earlier = None
  /\ TotalScore(scores_arg) > 0
  /\ \E letter \in Letters, raise \in Raises :
       /\ scores_arg[letter] = TopScore(scores_arg)
       /\ scores_arg' = [ scores_arg EXCEPT ![letter] = @ + raise ]
  /\ earlier' = [ call |-> call, result |-> result ]
  /\ call' = None
  /\ result' = None
  /\ UNCHANGED << framework_file, FRAMEWORK, inferred, code, pipelineVars, learnerVars, chatVars >>

NextConfidence ==
  \/ CalculateConfidence
  \/ RaiseTopScore

SpecConfidence == InitConfidence /\ [][NextConfidence]_vars
(***************************************************************************)
(* normalize_text on texts                                                 *)
(***************************************************************************)
\* Texts are up to MaxTextLen characters long
MaxTextLen == 4

\* an upper-case and a lower-case letter, two whitespace characters and one
\* of the separators
TextAlphabet(separator) == { "A", "b", " ", "\t", separator }

RECURSIVE TextsOfLen(_, _)
TextsOfLen(n, alphabet) ==
  IF n = 0 THEN { "" }
  ELSE { t \o c : t \in TextsOfLen(n - 1, alphabet), c \in alphabet }

\* the texts handed to normalize_text; "" also stands for an absent text
Texts ==
  UNION { TextsOfLen(n, TextAlphabet(separator)) :
          n \in 0..MaxTextLen, separator \in SEPARATORS }

\* a caller calls normalize_text and holds what it returned
NormalizeText ==
  /\ result = None
  /\ earlier = None
  /\ \E text \in Texts :
       /\ call' = [ text |-> text ]
       /\ result' = [ normalized |-> normalize_text(text) ]
  /\ UNCHANGED << framework_file, FRAMEWORK, inferred, earlier, codeVars, pipelineVars, learnerVars, chatVars >>

\* the caller keeps the call and calls normalize_text on what it returned
NormalizeAgain ==
  /\ result # None
  /\ earlier = None
  /\ earlier' = [ call |-> call, result |-> result ]
  /\ call' = [ text |-> result.normalized ]
  /\ result' = [ normalized |-> normalize_text(result.normalized) ]
  /\ UNCHANGED << framework_file, FRAMEWORK, inferred, codeVars, pipelineVars, learnerVars, chatVars >>

NextNormalize ==
  \/ NormalizeText
  \/ NormalizeAgain

SpecNormalize == Init /\ [][NextNormalize]_vars

(***************************************************************************)
(* tools/job_search_tools.py: search_jobs_by_riasec over the written table *)
(***************************************************************************)
\* the default of search_jobs_by_riasec's limit
DEFAULT_LIMIT == 10

\* the columns of the SELECT list; those the written table of the model does
\* not carry (job_location, job_level) are left out by SelectedRow
SEARCH_COLUMNS ==
  { "job_link", "job_title", "company", "job_location", "job_level", "job_skills",
    "riasec_code", "riasec_confidence", "primary_riasec_type" }

SelectedRow(row) == [ c \in SEARCH_COLUMNS \cap DOMAIN row |-> row[c] ]

\* lines 69-75: the column the WHERE clause tests and the value it tests for
WhereClause(riasec_code, primary_type_only) ==
  IF primary_type_only
  THEN [ column |-> "primary_riasec_type", value |-> upper_chars(Char(riasec_code, 1)) ]
  ELSE [ column |-> "riasec_code", value |-> upper_chars(riasec_code) ]

\* ORDER BY riasec_confidence DESC: the orders one execution can return the
\* rows in; rows of equal confidence come in any order
ConfidenceOrders(rows) ==
  LET n == Len(rows)
  IN  { [ k \in 1..n |-> rows[order[k]] ] :
        order \in { o \in [ 1..n -> 1..n ] :
                      /\ \A i, j \in 1..n : o[i] = o[j] => i = j
                      /\ \A i \in 1..(n - 1) :
                           rows[o[i]].riasec_confidence >= rows[o[i + 1]].riasec_confidence } }

\* what search_jobs_by_riasec can return on a jobs table, with no job_level
search_jobs_by_riasec(jobs, riasec_code, primary_type_only, limit) ==
  LET where   == WhereClause(riasec_code, primary_type_only)
      matched == SelectSeq(jobs, LAMBDA row : row[where.column] = where.value)
      picked  == [ k \in 1..Len(matched) |-> SelectedRow(matched[k]) ]
  IN  { Page(ordered, limit, 0) : ordered \in ConfidenceOrders(picked) }

\* codes a caller searches for
SearchCodes == { "IRC", "irc", "R", "AIR", "ICA", "s" }

\* a caller searches the table the pipeline wrote and holds what came back
SearchJobsByRiasec ==
  /\ written
  /\ result = None
  /\ \E riasec_code \in SearchCodes, primary_type_only \in BOOLEAN :
       /\ call' = [ riasec_code |-> riasec_code, primary_type_only |-> primary_type_only ]
       /\ \E rows \in search_jobs_by_riasec(output, riasec_code, primary_type_only, DEFAULT_LIMIT) :
            result' = [ rows |-> rows ]
  /\ UNCHANGED << framework_file, FRAMEWORK, inferred, earlier, codeVars, pipelineVars, learnerVars, chatVars >>

NextSearch ==
  \/ \E file \in SourceFiles, title \in {"", "job_title"},
        size \in 1..(MaxRows + 1), sample \in 0..MaxSample :
       ProcessCsvFile(file, title, size, sample)
  \/ \E skills \in SkillsFiles, details_file \in DetailsFiles, size \in 1..(MaxRows + 1) :
       JoinAndProcess(skills, details_file, size)
  \/ Window
  \/ Save
  \/ JoinWindow
  \/ JoinSave
  \/ SearchJobsByRiasec

SpecSearch == Init /\ [][NextSearch]_vars

(***************************************************************************)
(* agent/career_stu.py, agent/context_builder.py and api/routes/chat.py    *)
(***************************************************************************)
\* a conversation history holds up to MaxMessages messages
MaxMessages == 3

UserMessages == { "hello", "find data jobs" }

\* what _process_response makes of the model's response
AssistantMessages == { "Welcome" }

\* how a call of chat goes: get_learner_context raises, messages.create
\* raises, or the model responds
ChatOutcomes == { "context_raised", "request_raised", "responded" }

\* ContextBuilder.add_message
add_message(conversation_history, role, content) ==
  Append(conversation_history, [ role |-> role, content |-> content ])

\* CareerSTU.chat, lines 66-101: the history it leaves, whether it raised, and
\* what it returned
chat(conversation_history, user_message, outcome, assistant_message) ==
  IF outcome = "context_raised"
  THEN [ conversation_history |-> conversation_history, raised |-> TRUE, returned |-> "" ]
  ELSE Only({ IF outcome = "request_raised"
              THEN [ conversation_history |-> with_user, raised |-> TRUE, returned |-> "" ]
              ELSE [ conversation_history |->
                       add_message(with_user, "assistant", assistant_message),
                     raised |-> FALSE, returned |-> assistant_message ] :
              with_user \in { add_message(conversation_history, "user", user_message) } })

\* create_agent: a CareerSTU with a ContextBuilder of no messages
create_agent == [ present |-> TRUE, conversation_history |-> << >> ]

\* lines 42-47 of chat.py: the agent send_message talks to
AgentFor(learner_id, reset) ==
  IF ~agent_store[learner_id].present \/ reset THEN create_agent ELSE agent_store[learner_id]

\* POST /message: lines 29-63 of chat.py
SendMessage ==
  \E learner_id \in ChatLearners, reset \in BOOLEAN :
    /\ Len(AgentFor(learner_id, reset).conversation_history) < MaxMessages
    /\ \E message \in UserMessages, outcome \in ChatOutcomes,
          assistant_message \in AssistantMessages :
         \E done \in { chat(AgentFor(learner_id, reset).conversation_history,
                            message, outcome, assistant_message) } :
           /\ agent_store' = [ agent_store EXCEPT ![learner_id] =
                                 [ present |-> TRUE,
                                   conversation_history |-> done.conversation_history ] ]
           /\ call' = [ route |-> "message", learner_id |-> learner_id,
                        message |-> message, reset |-> reset, outcome |-> outcome ]
           /\ result' = IF done.raised
                        THEN [ status_code |-> 500, response |-> "" ]
                        ELSE [ status_code |-> 200, response |-> done.returned ]
    /\ UNCHANGED << framework_file, FRAMEWORK, inferred, earlier, codeVars, pipelineVars, learnerVars >>

\* POST /reset: lines 66-80 of chat.py, and CareerSTU.reset_conversation
ResetConversation ==
  \E learner_id \in ChatLearners :
    /\ agent_store' = [ agent_store EXCEPT ![learner_id] =
                          IF @.present THEN [ @ EXCEPT !.conversation_history = << >> ] ELSE @ ]
    /\ call' = [ route |-> "reset", learner_id |-> learner_id ]
    /\ result' = [ status_code |-> 200 ]
    /\ UNCHANGED << framework_file, FRAMEWORK, inferred, earlier, codeVars, pipelineVars, learnerVars >>

\* GET /mode/{learner_id}: lines 83-110 of chat.py
GetCurrentMode ==
  \E learner_id \in ChatLearners :
    /\ agent_store' = [ agent_store EXCEPT ![learner_id] =
                          IF @.present THEN @ ELSE create_agent ]
    /\ call' = [ route |-> "mode", learner_id |-> learner_id ]
    /\ result' = [ status_code |-> 200 ]
    /\ UNCHANGED << framework_file, FRAMEWORK, inferred, earlier, codeVars, pipelineVars, learnerVars >>

NextChat ==
  \/ SendMessage
  \/ ResetConversation
  \/ GetCurrentMode

SpecChat == Init /\ [][NextChat]_vars


(***************************************************************************)
(* Properties                                                              *)
(***************************************************************************)
\* a code of exactly three characters, each one of the six letters
ValidCode(c) == Len(c) = 3 /\ \A i \in 1..3 : Char(c, i) \in Letters

AllZero(scores) == \A l \in Letters : scores[l] = 0

\* C1: whatever the skills text, the title and the link, the riasec_code that
\* classify_job returns (also through infer_riasec_from_skills) has exactly 3
\* characters, each drawn from R, I, A, S, E, C.
C1_CodeHasThreeLetters ==
  /\ result # None => ValidCode(result.riasec_code)
  /\ inferred # None => ValidCode(inferred.riasec_code)

\* a call that matched one category only, so that two letters were filled in
C1_Witness ==
  /\ result # None
  /\ call.job_link # ""
  /\ Cardinality({ l \in Letters : result.scores[l] > 0 }) = 1
  /\ ValidCode(result.riasec_code)

\* C2: the confidence that classify_job returns (calculate_confidence, then
\* rounded to 3 decimals) is at least 0 and at most 1.
C2_ConfidenceInUnitInterval ==
  /\ result # None => result.confidence \in 0..1000
  /\ inferred # None => inferred.confidence \in 0..1000

\* a call with more than 10 points of evidence, all for one category: the
\* confidence reaches 1
C2_Witness ==
  /\ result # None
  /\ result.total_score > 100
  /\ result.confidence = 1000

\* C3: when all six scores are 0, classify_job returns the code RIA with
\* confidence 0, total 0 and no matched indicators, under either key order of
\* the framework and whatever was called before; the texts without any
\* indicator score 0 everywhere.
C3_ZeroEvidenceGivesRIA ==
  result # None =>
    /\ AllZero(result.scores) =>
         /\ result.riasec_code = "RIA"
         /\ result.confidence = 0
         /\ result.total_score = 0
         /\ DOMAIN result.matched_indicators = {}
    /\ ( /\ call.skills_text \in {"", "xyz qwerty"}
         /\ call.job_title = ""
         /\ call.job_link \in {"", "https://example.com/jobs/17"} ) => AllZero(result.scores)

\* no indicator matched, under the framework whose keys are not in the order RIASEC
C3_Witness ==
  /\ result # None
  /\ FRAMEWORK = FrameworkFile
  /\ call.skills_text = "xyz qwerty"
  /\ AllZero(result.scores)
  /\ result.riasec_code = "RIA"

\* The reference of C4: the fixed order of the letters
FixedOrder == << "R", "I", "A", "S", "E", "C" >>

FixedIndex(l) == CHOOSE k \in 1..Len(FixedOrder) : FixedOrder[k] = l

\* a comes before b: a higher score, or the same score and earlier in FixedOrder
Ahead(scores, a, b) ==
  \/ scores[a] > scores[b]
  \/ scores[a] = scores[b] /\ FixedIndex(a) < FixedIndex(b)

\* the letters by score descending, ties by FixedOrder: the letter at place k
\* has exactly k - 1 letters ahead of it
ReferenceOrder(scores) ==
  [ k \in 1..Len(FixedOrder) |->
      CHOOSE l \in Letters : Cardinality({ m \in Letters : Ahead(scores, m, l) }) = k - 1 ]

ReferenceCode(scores) ==
  LET order    == ReferenceOrder(scores)
      positive == SelectSeq(order, LAMBDA l : scores[l] > 0)
      first    == SubSeq(positive, 1, IF Len(positive) < 3 THEN Len(positive) ELSE 3)
      rest     == SelectSeq(order, LAMBDA l : \A k \in 1..Len(first) : first[k] # l)
  IN  first \o SubSeq(rest, 1, 3 - Len(first))

\* C4: for every score vector determine_riasec_code returns the reference code:
\* the letters sorted by score descending with ties in the order R,I,A,S,E,C
\* (whatever the key order of the loaded framework), the first up to 3 of them
\* with a positive score, then the next letters of that order up to 3 letters.
C4_CodeMatchesReference ==
  code # "" =>
    /\ Len(code) = 3
    /\ \A k \in 1..3 : Char(code, k) = ReferenceCode(scores_arg)[k]

\* two tied positive scores and four zeros, under the framework keyed C,E,S,A,I,R
C4_Witness ==
  /\ code = "ISR"
  /\ FRAMEWORK = FrameworkFile
  /\ scores_arg["I"] = scores_arg["S"]
  /\ scores_arg["I"] > 0
  /\ scores_arg["R"] = 0

\* the name of the category of a letter, read off the framework
HasName(letter, name) ==
  \E k \in 1..Len(FRAMEWORK.riasec_types) :
    /\ FRAMEWORK.riasec_types[k].letter = letter
    /\ FRAMEWORK.riasec_types[k].name = name

\* C5: the skills Python, SQL, Machine Learning, Data Analysis, with the title
\* Data Scientist through classify_job and with no title through
\* infer_riasec_from_skills (which joins the list with ", "), give a code that
\* starts with I and the primary type Investigative; and every primary_type is
\* the name of the category of the first letter of the code.
C5_DataScientistIsInvestigative ==
  /\ result # None =>
       /\ HasName(Char(result.riasec_code, 1), result.primary_type)
       /\ ( /\ call.skills_text = "Python, SQL, Machine Learning, Data Analysis"
            /\ call.job_title = "Data Scientist" ) =>
            /\ Char(result.riasec_code, 1) = "I"
            /\ result.primary_type = "Investigative"
  /\ inferred # None =>
       /\ HasName(Char(inferred.riasec_code, 1), inferred.primary_type)
       /\ call.skills_text = "Python, SQL, Machine Learning, Data Analysis" =>
            /\ Char(inferred.riasec_code, 1) = "I"
            /\ inferred.primary_type = "Investigative"

\* infer_riasec_from_skills joined the four skills and returned an I code
C5_Witness ==
  /\ inferred # None
  /\ FRAMEWORK = get_embedded_framework
  /\ call.skills_text = "Python, SQL, Machine Learning, Data Analysis"
  /\ call.job_title = ""
  /\ Char(inferred.riasec_code, 1) = "I"
  /\ inferred.primary_type = "Investigative"

PythonSql == [ skills_text |-> "Python, SQL", job_title |-> "", job_link |-> "" ]

\* C6: the skills Python, SQL with the title Data Analyst give category I a
\* strictly higher score than the same skills with an empty title.
C6_DataAnalystTitleScoresHigher ==
  ( /\ earlier # None
    /\ result # None
    /\ earlier.call = PythonSql
    /\ call = [ PythonSql EXCEPT !.job_title = "Data Analyst" ] )
  => result.scores["I"] > earlier.result.scores["I"]

\* the trace of a category in a result, empty when the category has no entry
MatchedOf(r, letter) ==
  IF letter \in DOMAIN r.matched_indicators THEN r.matched_indicators[letter] ELSE << >>

CountEntry(entries, entry) == Cardinality({ k \in 1..Len(entries) : entries[k] = entry })

\* the weight a trace entry records in its suffix
EntryWeight(entry) ==
  LET suffix == SubSeq(entry, Len(entry) - 5, Len(entry))
  IN  IF suffix = "(+3.0)" THEN STRONG_INDICATOR_WEIGHT
      ELSE IF suffix = "(+1.5)" THEN MODERATE_INDICATOR_WEIGHT
      ELSE KEYWORD_WEIGHT

TraceWeight(entries) ==
  SumOver([ k \in 1..Len(entries) |-> EntryWeight(entries[k]) ],
          [ k \in 1..Len(entries) |-> k ])

\* the strong indicators of a category found in the title (and so in the text)
StrongInTitle(type_data, title_text) ==
  { k \in 1..Len(type_data.strong) : Contains(title_text, str_lower(type_data.strong[k])) }

\* the pairs (i, j) of a phrase listed as strong[i] and as moderate[j] that
\* the text contains
SharedMatches(type_data, combined_text) ==
  { ij \in (1..Len(type_data.strong)) \X (1..Len(type_data.moderate)) :
      /\ str_lower(type_data.strong[ij[1]]) = str_lower(type_data.moderate[ij[2]])
      /\ Contains(combined_text, str_lower(type_data.strong[ij[1]])) }

\* C7: for every category and every phrase in both its strong and its moderate
\* list that the text contains, the trace has the phrase once at +3.0 and never
\* at +1.5, and the score of the category is the sum of the weights in its trace
\* plus the title bonus of each strong indicator found in the title: the phrase
\* adds 3.0 (plus the bonus) once and never 1.5 on top.
C7_SharedPhraseCountedOnceAsStrong ==
  result # None =>
    \A t \in 1..Len(FRAMEWORK.riasec_types) :
      LET type_data     == FRAMEWORK.riasec_types[t]
          title_text    == normalize_text(EffectiveTitle(call.job_title, call.job_link))
          combined_text == normalize_text(EffectiveTitle(call.job_title, call.job_link)
                                          \o " " \o call.skills_text)
          entries       == MatchedOf(result, type_data.letter)
      IN  /\ \A ij \in SharedMatches(type_data, combined_text) :
               /\ CountEntry(entries, TraceEntry(type_data.strong[ij[1]],
                                                 STRONG_INDICATOR_WEIGHT)) = 1
               /\ CountEntry(entries, TraceEntry(type_data.moderate[ij[2]],
                                                 MODERATE_INDICATOR_WEIGHT)) = 0
          /\ result.scores[type_data.letter]
               = TraceWeight(entries)
                 + TITLE_BONUS_WEIGHT * Cardinality(StrongInTitle(type_data, title_text))

\* "data entry" is a strong and a moderate indicator of C and the text has it:
\* Excel 3.0 + data entry 3.0 + reporting 1.5
C7_Witness ==
  /\ result # None
  /\ FRAMEWORK = FrameworkFile
  /\ call.skills_text = "Data entry and reporting with Excel"
  /\ call.job_title = "Data Analysis"
  /\ SharedMatches(File_C, normalize_text(call.job_title \o " " \o call.skills_text)) # {}
  /\ SharedMatches(File_I, normalize_text(call.job_title \o " " \o call.skills_text)) # {}
  /\ result.scores["C"] = 75

C9_OneOutputRowPerInputRow ==
  (pc = "done" /\ called = "process_csv_file") =>
    /\ Len(output) = TotalRows(source, sample_size)
    /\ sample_size = 0 => Len(output) = Len(source)
    /\ \A k \in 1..Len(output) :
         /\ output[k].job_link = source[k].job_link
         /\ output[k].job_skills = source[k].job_skills
         /\ ValidCode(output[k].riasec_code)
         /\ output[k].riasec_confidence \in 0..1000
    /\ output = process_batch(FetchWindow(source, SelectCols(title_col), total_rows, 0),
                              title_col # "")

\* three rows read in a window of two and a window of one
C9_Witness ==
  /\ pc = "done"
  /\ called = "process_csv_file"
  /\ Len(source) = MaxRows
  /\ batch_size = MaxRows - 1
  /\ sample_size = 0
  /\ source[1] # source[MaxRows]
  /\ Len(output) = MaxRows

DerivedColumns == { "riasec_code", "riasec_confidence", "primary_riasec_type" }

\* C10: every output row has all the columns of its input row with their
\* values, plus riasec_code, riasec_confidence and primary_riasec_type, and
\* extracted_title at most besides.
C10_InputColumnsPreserved ==
  (pc = "done" /\ called = "process_csv_file") =>
    \A k \in 1..Len(output) :
      /\ \A c \in DOMAIN source[k] :
           c \in DOMAIN output[k] /\ output[k][c] = source[k][c]
      /\ DerivedColumns \subseteq DOMAIN output[k]
      /\ DOMAIN output[k] \subseteq
           DOMAIN source[k] \cup DerivedColumns \cup { "extracted_title" }

\* C11: when the source of process_csv_file is missing or has no row, the run
\* fails, and it reads no window, writes nothing to the destination and does
\* not complete.
C11_EmptySourceFailsBeforeWriting ==
  ( /\ called = "process_csv_file"
    /\ ~source_exists \/ Len(source) = 0 )
  => /\ pc # "done"
     /\ processed = 0
     /\ ~written

C13_UnjoinableSourcesDegrade ==
  ( /\ called = "join_and_process"
    /\ source_exists
    /\ details.exists
    /\ link_col \notin source_cols \/ link_col \notin details.cols
    /\ ~write_failed )
  => /\ degraded
     /\ pc # "failed"
     /\ pc = "done" =>
          /\ Len(returned[1]) = Len(source)
          /\ returned[1] = process_batch(FetchWindow(source, SelectCols(""), Len(source), 0),
                                      FALSE)

\* C14: importing the classifier never fails, and when the framework file is
\* missing or is not a framework file the built-in table is loaded; every
\* call then returns a result.
C14_LoadFrameworkNeverFails ==
  /\ FRAMEWORK # ImportFailed
  /\ framework_file # "valid" => FRAMEWORK = get_embedded_framework
  /\ call # None => result # None

\* the journey of C15 for the first learner, and the modes it is to go through
JourneySteps ==
  << Called("create_learner", 1, ""),
     Called("update_learner_profile", 1,
            [ current_job_title |-> "Beginner", profile_complete |-> TRUE ]),
     Called("set_learner_goal", 1, "committed"),
     Called("create_pathway", 1, 1) >>

JourneyModes == << "INTAKE", "GOAL_DISCOVERY", "PATHWAY", "LEARNING" >>

\* C15: for a learner taken through create_learner, update_learner_profile with
\* profile_complete=True, set_learner_goal with status committed and
\* create_pathway, determine_mode(get_learner_context(learner)) after each of
\* the four steps is INTAKE, GOAL_DISCOVERY, PATHWAY and LEARNING.
C15_JourneyGoesThroughTheFourModes ==
  \A k \in 1..Len(JourneySteps) :
    (mode # "" /\ journey = SubSeq(JourneySteps, 1, k)) => mode = JourneyModes[k]

Modes == { "INTAKE", "GOAL_DISCOVERY", "PATHWAY", "LEARNING" }

\* the conditions of C16, each on the context alone
IsIntake(context) ==
  \/ DOMAIN context = {}
  \/ "learner" \in DOMAIN context /\ "status" \in DOMAIN context.learner
       /\ context.learner.status = "new"
  \/ "profile" \notin DOMAIN context
  \/ "profile_complete" \notin DOMAIN context.profile
  \/ context.profile.profile_complete = FALSE

HasActivePathway(context) ==
  /\ "active_pathway" \in DOMAIN context
  /\ context.active_pathway # None
  /\ context.active_pathway.status = "active"

FirstGoalCommitted(context) ==
  /\ "goals" \in DOMAIN context
  /\ Len(context.goals) > 0
  /\ context.goals[1].status = "committed"

\* C16: determine_mode returns one of the four modes for every context: INTAKE
\* if the context is empty, the learner status is new or profile_complete is
\* falsy; otherwise LEARNING if active_pathway has status active; otherwise
\* PATHWAY if the first goal has status committed; otherwise GOAL_DISCOVERY.
C16_ModeFollowsThePriority ==
  mode # "" =>
    /\ mode \in Modes
    /\ mode = "INTAKE" <=> IsIntake(learner_context)
    /\ mode = "LEARNING" <=> ~IsIntake(learner_context) /\ HasActivePathway(learner_context)
    /\ mode = "PATHWAY" <=>
         /\ ~IsIntake(learner_context)
         /\ ~HasActivePathway(learner_context)
         /\ FirstGoalCommitted(learner_context)
    /\ mode = "GOAL_DISCOVERY" <=>
         /\ ~IsIntake(learner_context)
         /\ ~HasActivePathway(learner_context)
         /\ ~FirstGoalCommitted(learner_context)

\* an active pathway and a committed first goal together: LEARNING wins
C16_Witness ==
  /\ mode = "LEARNING"
  /\ FirstGoalCommitted(learner_context)
  /\ HasActivePathway(learner_context)
  /\ Len(learner_context.goals) = MaxGoals

\* C17: for any two 3-letter RIASEC codes compare_riasec_codes returns a
\* fit_score between 0 and 100, and the fit_score is 100 exactly when the two
\* codes are the same up to case.
C17_FitScoreRangeAndPerfectMatch ==
  (call # None /\ result # None) =>
    /\ result.fit_score \in 0..100
    /\ (result.fit_score = 100) <=>
         (lower_chars(call.learner_riasec) = lower_chars(call.job_riasec))

\* a perfect fit of two codes typed in different cases, e.g. "ira" and "IRA"
C17_Witness ==
  /\ call # None
  /\ result # None
  /\ call.learner_riasec # call.job_riasec
  /\ result.fit_score = 100

RECURSIVE RatioLeq(_, _, _, _)
\* a/b <= c/d for naturals a, c and positive b, d, by comparing the integer
\* parts and then the reciprocals of the fractional parts
RatioLeq(a, b, c, d) ==
  IF a \div b # c \div d THEN a \div b < c \div d
  ELSE IF a % b = 0 THEN TRUE
  ELSE IF c % d = 0 THEN FALSE
  ELSE RatioLeq(d, c % d, b, a % b)

FractionLeq(x, y) == RatioLeq(x.num, x.den, y.num, y.den)

\* C18: for every non-negative score vector of positive total, raising the
\* score of the top-scoring category while the other five stay never lowers
\* calculate_confidence.
C18_ConfidenceMonotoneInTopScore ==
  (earlier # None /\ result # None) => FractionLeq(earlier.result, result)

\* the confidence was taken before and after a raise of the top score, and
\* it went strictly up
C18_Witness ==
  /\ earlier # None
  /\ result # None
  /\ ~FractionLeq(result, earlier.result)
  /\ \E letter \in Letters :
       /\ earlier.call.scores[letter] = TopScore(earlier.call.scores)
       /\ call.scores[letter] > earlier.call.scores[letter]
       /\ \A other \in Letters \ {letter} : call.scores[other] = earlier.call.scores[other]

\* C19: every classify_job result has a scores mapping with exactly the six
\* keys R, I, A, S, E, C, each non-negative; total_score is their sum; and
\* matched_indicators has a letter exactly when that letter's score is
\* strictly positive.
C19_ResultShape ==
  result # None =>
    /\ DOMAIN result.scores = {"R", "I", "A", "S", "E", "C"}
    /\ \A letter \in DOMAIN result.scores : result.scores[letter] >= 0
    /\ result.total_score =
         result.scores["R"] + result.scores["I"] + result.scores["A"]
           + result.scores["S"] + result.scores["E"] + result.scores["C"]
    /\ \A letter \in DOMAIN result.scores :
         (letter \in DOMAIN result.matched_indicators) <=> (result.scores[letter] > 0)

\* a result with matches in some categories and none in others
C19_Witness ==
  /\ result # None
  /\ \E letter \in DOMAIN result.matched_indicators : result.scores[letter] > 0
  /\ \E letter \in DOMAIN result.scores :
       result.scores[letter] = 0 /\ letter \notin DOMAIN result.matched_indicators

\* the moderate indicators of a category that the text contains and that are
\* not, as the same phrase, among the strong indicators the text contains
ModerateNotStrong(type_data, combined_text) ==
  { j \in 1..Len(type_data.moderate) :
      /\ Contains(combined_text, str_lower(type_data.moderate[j]))
      /\ ~\E i \in 1..Len(type_data.strong) :
            /\ str_lower(type_data.strong[i]) = str_lower(type_data.moderate[j])
            /\ Contains(combined_text, str_lower(type_data.strong[i])) }

\* C20: a moderate-tier phrase of a category that occurs in combined_text adds
\* 1.5 to the category's score and one trace entry, unless that same phrase was
\* recorded as a strong-tier match of the category; a moderate phrase that is
\* only a part of a longer matched strong phrase ("design" when "graphic
\* design" matched) is still counted.
C20_ModerateCountedUnlessSamePhraseStrong ==
  result # None =>
    \A t \in 1..Len(FRAMEWORK.riasec_types) :
      LET type_data     == FRAMEWORK.riasec_types[t]
          title_text    == normalize_text(EffectiveTitle(call.job_title, call.job_link))
          combined_text == normalize_text(EffectiveTitle(call.job_title, call.job_link)
                                          \o " " \o call.skills_text)
          entries       == MatchedOf(result, type_data.letter)
      IN  /\ \A j \in ModerateNotStrong(type_data, combined_text) :
               CountEntry(entries, TraceEntry(type_data.moderate[j],
                                              MODERATE_INDICATOR_WEIGHT)) = 1
          /\ result.scores[type_data.letter]
               = TraceWeight(entries)
                 + TITLE_BONUS_WEIGHT * Cardinality(StrongInTitle(type_data, title_text))

\* the strong indicators of a category that the text contains
StrongInText(type_data, combined_text) ==
  { k \in 1..Len(type_data.strong) : Contains(combined_text, str_lower(type_data.strong[k])) }

\* the trace entries of the moderate and the keyword tier
LowerTierEntries(entries) ==
  SelectSeq(entries, LAMBDA entry : EntryWeight(entry) # STRONG_INDICATOR_WEIGHT)

\* C21: every strong indicator of a category found in combined_text and in
\* title_text adds 3.0 + 2.0 to the score of its own category and one trace
\* entry; one found in combined_text only adds 3.0; no other category gets
\* the bonus.
C21_StrongMatchAndTitleBonus ==
  result # None =>
    \A t \in 1..Len(FRAMEWORK.riasec_types) :
      LET type_data     == FRAMEWORK.riasec_types[t]
          title_text    == normalize_text(EffectiveTitle(call.job_title, call.job_link))
          combined_text == normalize_text(EffectiveTitle(call.job_title, call.job_link)
                                          \o " " \o call.skills_text)
          entries       == MatchedOf(result, type_data.letter)
          found         == StrongInText(type_data, combined_text)
          in_title      == found \cap StrongInTitle(type_data, title_text)
      IN  /\ \A k \in found :
               CountEntry(entries, TraceEntry(type_data.strong[k],
                                              STRONG_INDICATOR_WEIGHT)) = 1
          /\ Len(entries) - Len(LowerTierEntries(entries)) = Cardinality(found)
          /\ result.scores[type_data.letter]
               = (STRONG_INDICATOR_WEIGHT + TITLE_BONUS_WEIGHT) * Cardinality(in_title)
                 + STRONG_INDICATOR_WEIGHT * Cardinality(found \ in_title)
                 + TraceWeight(LowerTierEntries(entries))

\* a category with a strong indicator in the title and another in the skills
\* text only
C21_Witness ==
  /\ result # None
  /\ \E t \in 1..Len(FRAMEWORK.riasec_types) :
       LET type_data     == FRAMEWORK.riasec_types[t]
           title_text    == normalize_text(EffectiveTitle(call.job_title, call.job_link))
           combined_text == normalize_text(EffectiveTitle(call.job_title, call.job_link)
                                           \o " " \o call.skills_text)
           found         == StrongInText(type_data, combined_text)
           in_title      == found \cap StrongInTitle(type_data, title_text)
       IN  in_title # {} /\ found \ in_title # {}

\* the largest of the six scores of a result
LargestScore(scores) == CHOOSE v \in { scores[l] : l \in Letters } : \A l \in Letters : scores[l] <= v

\* min(0.6 * top / total + 0.4 * min(total / 10, 1), 1) as a fraction, for
\* scores in tenths and a positive total
ConfidenceFormula(scores) ==
  LET total == scores["R"] + scores["I"] + scores["A"] + scores["S"] + scores["E"] + scores["C"]
      top   == LargestScore(scores)
      num   == 600 * top + 4 * (IF total < 100 THEN total ELSE 100) * total
      den   == 1000 * total
  IN  [ num |-> IF num < den THEN num ELSE den, den |-> den ]

\* The statement of C22 as given: the reported confidence (in thousandths)
\* is 0 for a zero total and otherwise is the value of the formula itself.
C22_ReportedConfidenceIsTheFormula ==
  result # None =>
    IF result.total_score = 0 THEN result.confidence = 0
    ELSE result.confidence * ConfidenceFormula(result.scores).den
           = 1000 * ConfidenceFormula(result.scores).num

\* C22: the confidence reported by classify_job is 0 when the total score is 0
\* and otherwise is the value of the formula rounded to three decimals: it is
\* a whole number of thousandths within half a thousandth of the formula.
C22_ReportedConfidenceIsTheFormulaRounded ==
  result # None =>
    IF result.total_score = 0 THEN result.confidence = 0
    ELSE LET f    == ConfidenceFormula(result.scores)
             diff == result.confidence * f.den - 1000 * f.num
         IN  /\ result.confidence \in 0..1000
             /\ 2 * diff <= f.den
             /\ 2 * diff >= -f.den

\* a result whose formula value is not a whole number of thousandths
C22_Witness ==
  /\ result # None
  /\ result.total_score > 0
  /\ (1000 * ConfidenceFormula(result.scores).num) % ConfidenceFormula(result.scores).den # 0

\* the two loops: `while processed < total_rows` and `while offset < match_count`
InLoop == pc \in { "loop", "join_loop" }

C24_NormalizeTextIsTotalAndIdempotent ==
  (result # None /\ call # None) =>
    LET text == call.text
        out  == result.normalized
    IN  /\ Len(out) <= Len(text)
        /\ \A i \in 1..Len(out) :
             /\ Char(out, i) \notin CharsOf(UPPER)
             /\ Char(out, i) \notin SEPARATORS
        /\ Len(out) > 0 => /\ Char(out, 1) \notin WHITESPACE
                           /\ Char(out, Len(out)) \notin WHITESPACE
        /\ \A i \in 1..(Len(out) - 1) :
             ~(Char(out, i) \in WHITESPACE /\ Char(out, i + 1) \in WHITESPACE)
        /\ text = "" => out = ""
        /\ earlier # None => out = earlier.result.normalized

\* a text with an upper-case letter, a separator and a run of whitespace was
\* normalised, and then its result was
C24_Witness ==
  /\ earlier # None
  /\ result # None
  /\ earlier.call.text = "A-\tb"
  /\ earlier.result.normalized = "a b"
  /\ result.normalized = "a b"

\* the rows of the written table whose code begins with the letter
RowsOfPrimaryLetter(letter) ==
  { SelectedRow(output[k]) : k \in { j \in 1..Len(output) : Char(output[j].riasec_code, 1) = letter } }

\* C25: a search by primary type returns the written jobs whose riasec_code
\* begins with the first letter of the code searched for, and the value it
\* compares primary_riasec_type with is one the pipeline writes there.
C25_PrimarySearchReturnsJobsOfTheLetter ==
  (result # None /\ call # None /\ call.primary_type_only) =>
    LET letter == upper_chars(Char(call.riasec_code, 1))
    IN  /\ { result.rows[k] : k \in 1..Len(result.rows) } = RowsOfPrimaryLetter(letter)
        /\ WhereClause(call.riasec_code, TRUE).value \in { TypeName(l) : l \in Letters }

\* C26: the three letters of the code determine_riasec_code returns are
\* pairwise distinct, their scores do not increase from the first to the
\* third, and no letter left out of the code has a score above the third's.
C26_CodeIsTheThreeHighest ==
  code # "" =>
    /\ Len(code) = 3
    /\ \A i, j \in 1..3 : Char(code, i) = Char(code, j) => i = j
    /\ \A i \in 1..3 : Char(code, i) \in Letters
    /\ scores_arg[Char(code, 1)] >= scores_arg[Char(code, 2)]
    /\ scores_arg[Char(code, 2)] >= scores_arg[Char(code, 3)]
    /\ \A letter \in Letters \ { Char(code, i) : i \in 1..3 } :
         scores_arg[letter] <= scores_arg[Char(code, 3)]

\* two categories scored, in the reverse of the dict's order, and the code was
\* filled with a category of score 0
C26_Witness ==
  /\ code = "AIR"
  /\ scores_arg["A"] > scores_arg["I"]
  /\ scores_arg["I"] > 0
  /\ \A letter \in Letters \ { "A", "I" } : scores_arg[letter] = 0

HasSeparator(phrase) == \E i \in 1..Len(phrase) : Char(phrase, i) \in SEPARATORS

WithoutSeparatorPhrases(list) == SelectSeq(list, LAMBDA phrase : ~HasSeparator(phrase))

\* the categories without their phrases that hold a separator character
TypesWithoutSeparatorPhrases ==
  [ t \in 1..Len(RIASEC_TYPES) |->
      [ RIASEC_TYPES[t] EXCEPT !.strong   = WithoutSeparatorPhrases(@),
                               !.moderate = WithoutSeparatorPhrases(@),
                               !.keywords = WithoutSeparatorPhrases(@) ] ]

\* C27: an indicator phrase or keyword that holds a separator character has
\* no trace entry, whatever the text, and the scores and the trace are those
\* the framework gives without such phrases.
C27_SeparatorPhrasesNeverMatch ==
  result # None =>
    LET title    == EffectiveTitle(call.job_title, call.job_link)
        without  == ScoreTypes(TypesWithoutSeparatorPhrases,
                               normalize_text(title \o " " \o call.skills_text),
                               normalize_text(title),
                               [ letter \in Letters |->
                                   [ score   |-> InitialScores[letter],
                                     matched |-> InitialMatched[letter] ] ])
    IN  /\ \A letter \in Letters :
             /\ result.scores[letter] = without[letter].score
             /\ MatchedOf(result, letter) = without[letter].matched
        /\ \A t \in 1..Len(RIASEC_TYPES) :
             \A phrase \in { p \in Phrases : HasSeparator(p) } :
               \A w \in { STRONG_INDICATOR_WEIGHT, MODERATE_INDICATOR_WEIGHT, KEYWORD_WEIGHT } :
                 CountEntry(MatchedOf(result, RIASEC_TYPES[t].letter), TraceEntry(phrase, w)) = 0

\* the text of the call holds 'hands-on' as the framework lists it, and the
\* category that lists it has no entry for it
C27_Witness ==
  /\ result # None
  /\ Contains(str_lower(call.skills_text), "hands-on")
  /\ \E t \in 1..Len(RIASEC_TYPES) :
       /\ InList("hands-on", RIASEC_TYPES[t].moderate)
       /\ CountEntry(MatchedOf(result, RIASEC_TYPES[t].letter),
                     TraceEntry("hands-on", MODERATE_INDICATOR_WEIGHT)) = 0

\* C28: every result row carries the riasec_code, the confidence and the
\* primary type obtained by classifying the row's skills with exactly the
\* title stored in its extracted_title, in process_csv_file with and without
\* a title column and in join_and_process.
C28_RowClassifiedWithItsExtractedTitle ==
  \A k \in 1..Len(all_results) :
    LET row == all_results[k]
        classification == classify_job(row.job_skills, row.extracted_title, "")
    IN  /\ row.riasec_code = classification.riasec_code
        /\ row.riasec_confidence = classification.confidence
        /\ row.primary_riasec_type = classification.primary_type

\* the messages alternate, from a user message on
Alternates(conversation_history) ==
  \A i \in 1..Len(conversation_history) :
    conversation_history[i].role = IF i % 2 = 1 THEN "user" ELSE "assistant"

\* C29: a call of chat whose model request raises leaves the conversation
\* history of its agent as it was before the call, and every history
\* alternates between user and assistant messages.
C29_FailedRequestLeavesHistory ==
  /\ [][ \A learner_id \in ChatLearners :
           ( /\ call'.route = "message"
             /\ call'.learner_id = learner_id
             /\ call'.outcome = "request_raised" )
           => agent_store'[learner_id].conversation_history
                = AgentFor(learner_id, call'.reset).conversation_history ]_<<call, agent_store>>
  /\ [](\A learner_id \in ChatLearners :
          Alternates(agent_store[learner_id].conversation_history))

\* C30: process_csv_file terminates for every window size from 0 up: while
\* rows are left, the iteration the loop runs next raises or fetches at least
\* one row and moves the cursor, so the rows left run out.
C30_EveryWindowSizeTerminates ==
  ( /\ pc = "loop"
    /\ processed < total_rows
    /\ \A c \in 1..Len(SelectCols(title_col)) : SelectCols(title_col)[c] \in source_cols )
  => Len(FetchWindow(source, SelectCols(title_col),
                     WindowLimit(batch_size, total_rows, processed), processed)) >= 1
====
